---------------------------- MODULE Spec2Model ----------------------------
(***************************************************************************)
(* A model of gceutils: the recursive structural type checker              *)
(* (decorators.enforce_type), the record validation added by               *)
(* base.grepr_dataclass (validate_method) and the object-tree visitor      *)
(* (tree_tools.TreeVisitor), together with the tree paths                  *)
(* (base.AbstractTreePath) and the errors they carry.                      *)
(*                                                                         *)
(* Python values are records tagged by `kind`:                             *)
(*   [kind |-> "atom", a |-> repr]                 ints, strs, None, ...   *)
(*   [kind |-> "list" | "tuple" | "set" | "frozenset", items |-> <<...>>]  *)
(*   [kind |-> "dict", entries |-> << <<key atom, value>>, ... >>]         *)
(*   [kind |-> "object", cls |-> name, ...]        class instances         *)
(* A set's `items` is the order in which iterating that set yields them.   *)
(* Type annotations are records tagged by `t` (what typing.get_origin and  *)
(* get_args return for them).                                              *)
(***************************************************************************)
EXTENDS Integers, Sequences, FiniteSets

VARIABLES
    pc,         \* "call" before the operation under study ran, "done" after
    value,      \* enforce_type: the value argument
    expected,   \* enforce_type: the expected type annotation
    path,       \* enforce_type / validate: the starting AbstractTreePath
    result,     \* enforce_type / validate: how the call ended
    self,       \* validate: the record instance
    calls,      \* validate: the calls validate_method made, in order
    root,       \* visit_tree: the object tree
    included,   \* visit_tree: TreeVisitor.included_types
    visited,    \* visit_tree: the returned map, path -> value
    heap,       \* paths: the AbstractTreePath objects that exist, by identity
    op          \* paths / trees / DualKeyDict: the operation called, with its arguments

vars == <<pc, value, expected, path, result, self, calls, root, included, visited,
          heap, op>>

(***************************************************************************)
(* Bounds of the model.                                                    *)
(***************************************************************************)
\* The longest list, tuple, set or dict drawn as an input.
MaxLen == 2

----------------------------------------------------------------------------
(***************************************************************************)
(* Python values and classes                                               *)
(***************************************************************************)

Atom(a) == [kind |-> "atom", a |-> a]

\* The integer objects, by value: IntAtoms[i + 1] is the repr of i.
IntAtoms == <<"0", "1", "2", "3", "4", "5">>

\* enumerate()'s index i as the key of a path segment.
IntRepr(i) == IntAtoms[i + 1]

\* Class objects that occur as values (isinstance(value, type) holds).
ClassAtoms == {"int", "str", "bool", "list"}

\* type(value).__name__
ClassOf(v) ==
    IF v.kind = "atom" THEN
        CASE v.a \in {IntAtoms[i] : i \in DOMAIN IntAtoms} -> "int"
          [] v.a = "True"     -> "bool"
          [] v.a = "'a'"      -> "str"
          [] v.a = "None"     -> "NoneType"
          [] v.a = "NotSet"   -> "NotSetType"
          [] v.a = "f"        -> "function"
          [] v.a \in ClassAtoms -> "type"
    ELSE IF v.kind = "object" THEN v.cls
    ELSE v.kind

\* The classes a class derives from, itself included (its __mro__).
Mro(c) ==
    CASE c = "bool"   -> {"bool", "int", "object"}
      [] c = "SubRecord" -> {"SubRecord", "Record", "object"}
      [] c = "ListNode"  -> {"ListNode", "list", "object"}
      [] c = "DictNode"  -> {"DictNode", "dict", "object"}
      [] OTHER        -> {c, "object"}

\* isinstance(v, c) for a class c
IsInstance(v, c) == c \in Mro(ClassOf(v))

\* issubclass(v, c) for a class object v and a class c
IsSubclass(v, c) == c \in Mro(v.a)

\* callable(v)
IsCallable(v) == ClassOf(v) \in {"type", "function"}

\* a == b for the keys, literals and atoms of the model (True == 1 in Python)
PyEq(a, b) == a = b \/ {a, b} = {"True", "1"}

\* What iterating v yields, in order (a str of one character yields itself,
\* a dict yields its keys).
IterItems(v) ==
    IF v.kind \in {"list", "tuple", "set", "frozenset"} THEN v.items
    ELSE IF v.kind = "dict" THEN [i \in DOMAIN v.entries |-> Atom(v.entries[i][1])]
    ELSE IF v.kind = "object" /\ "items" \in DOMAIN v THEN v.items
    ELSE <<v>>

----------------------------------------------------------------------------
(***************************************************************************)
(* base.AbstractTreePath                                                   *)
(***************************************************************************)

ATPathAttribute(val) == [seg |-> "ATPathAttribute", value |-> val]
ATPathIndexOrKey(val) == [seg |-> "ATPathIndexOrKey", value |-> val]

AbstractTreePath(segs, dot) == [path |-> segs, start_with_dot |-> dot]

add_attribute(p, attr) ==
    AbstractTreePath(Append(p.path, ATPathAttribute(attr)), p.start_with_dot)

add_index_or_key(p, index_or_key) ==
    AbstractTreePath(Append(p.path, ATPathIndexOrKey(index_or_key)), p.start_with_dot)

\* The prefix relation on paths' segment sequences.
IsPrefix(s, t) == Len(s) <= Len(t) /\ SubSeq(t, 1, Len(s)) = s

----------------------------------------------------------------------------
(***************************************************************************)
(* errors.GU_TypeValidationError, and how a call ends                      *)
(***************************************************************************)

\* The call returned normally.
Returned == [error |-> "none", path |-> <<>>, msg |-> ""]

\* raise GU_TypeValidationError(path, msg, condition)
GU_TypeValidationError(p, msg) ==
    [error |-> "GU_TypeValidationError", path |-> p.path, msg |-> msg]

\* A TypeError raised by the interpreter's own isinstance()/issubclass().
HostTypeError == [error |-> "TypeError", path |-> <<>>, msg |-> "isinstance/issubclass"]

Ok(r) == r.error = "none"

----------------------------------------------------------------------------
(***************************************************************************)
(* Type annotations                                                        *)
(***************************************************************************)

Any == [t |-> "Any"]
Ellipsis == [t |-> "Ellipsis"]
\* A class used as an annotation: get_origin(expected) is None.
Class(name) == [t |-> "class", name |-> name]
\* typing.NewType(name, ...): no origin, and not a class.
NewType(name) == [t |-> "NewType", name |-> name]
\* TypeVar(...); args is <<>> (no bound) or <<bound>>.
TypeVar(bound) == [t |-> "TypeVar", args |-> bound]
\* A1 | ... | An
Union(arms) == [t |-> "Union", args |-> arms]
\* origin[args]; origin is get_origin(expected), args is get_args(expected).
Generic(origin, args) == [t |-> origin, args |-> args]
\* Literal[values]
Literal(values) == [t |-> "Literal", values |-> values]

\* decorators._is_union
is_union(tp) == tp.t = "Union"

\* isinstance(v, abc) for collections.abc.Mapping, Sequence, Iterable and
\* Collection.
IsInstanceABC(v, abc) ==
    LET str == ClassOf(v) = "str"
        seq == IsInstance(v, "list") \/ IsInstance(v, "tuple")
        sets == IsInstance(v, "set") \/ IsInstance(v, "frozenset")
        map == IsInstance(v, "dict")
    IN  CASE abc = "Mapping"    -> map
          [] abc = "Sequence"   -> seq \/ str
          [] abc = "Iterable"   -> seq \/ sets \/ map \/ str
          [] abc = "Collection" -> seq \/ sets \/ map \/ str
          [] OTHER              -> FALSE

\* isinstance(v, origin) in the last fallback: "yes", "no", or "TypeError"
\* when origin is a typing special form (ClassVar, Final) that refuses
\* instance checks.
OriginCheck(v, origin) ==
    IF origin \in {"ClassVar", "Final"} THEN "TypeError"
    ELSE IF origin = "Collection" THEN (IF IsInstanceABC(v, origin) THEN "yes" ELSE "no")
    ELSE IF IsInstance(v, origin) THEN "yes" ELSE "no"

\* issubclass(v, (target,)) for one entry of the targets tuple: "yes", "no",
\* or "TypeError" when the entry is not a class (a parameterized generic, a
\* NewType, a Literal).
TargetCheck(v, target) ==
    CASE target.t = "class" -> (IF IsSubclass(v, target.name) THEN "yes" ELSE "no")
      [] target.t = "Any"   -> "no"
      [] OTHER              -> "TypeError"

\* issubclass(v, targets): the entries are tried in order; the first that
\* matches answers "yes", one that is no class raises when it is reached.
RECURSIVE issubclass(_, _)
issubclass(v, targets) ==
    IF targets = <<>> THEN "no"
    ELSE LET c == TargetCheck(v, Head(targets))
         IN  IF c = "no" THEN issubclass(v, Tail(targets)) ELSE c

\* For contrast: a loop that runs every check and raises for the last one
\* that fails.
LastRaise(checks) ==
    LET bad == {i \in DOMAIN checks : ~Ok(checks[i])}
    IN  IF bad = {} THEN Returned
        ELSE checks[CHOOSE i \in bad : \A j \in bad : j <= i]
\* A loop of checks that raises at the first one that fails: the outcome of
\* the first failing check of `checks`, or a normal return.
FirstRaise(checks) ==
    LET bad == {i \in DOMAIN checks : ~Ok(checks[i])}
    IN  IF bad = {} THEN Returned
        ELSE checks[CHOOSE i \in bad : \A j \in bad : i <= j]

\* The union's loop over its arms: the first arm that returns ends the call,
\* a GU_TypeValidationError of an arm is swallowed, any other error of an
\* arm escapes; when every arm raised GU_TypeValidationError, one combined
\* error is raised at the union's own path.
UnionOutcome(arms, p) ==
    LET stop == {i \in DOMAIN arms : arms[i].error # "GU_TypeValidationError"}
    IN  IF stop = {} THEN GU_TypeValidationError(p, "must be one of types")
        ELSE arms[CHOOSE i \in stop : \A j \in stop : i <= j]

\* For contrast: value i before key i.
EntryChecksValueFirst(keyChecks, valChecks) ==
    [n \in 1..(2 * Len(keyChecks)) |->
        IF n % 2 = 1 THEN valChecks[(n + 1) \div 2] ELSE keyChecks[n \div 2]]
\* The checks of dict[K, V] / Mapping[K, V], in the order the loop makes
\* them: key i, then value i, for each entry i in iteration order.
EntryChecks(keyChecks, valChecks) ==
    [n \in 1..(2 * Len(keyChecks)) |->
        IF n % 2 = 1 THEN keyChecks[(n + 1) \div 2] ELSE valChecks[n \div 2]]

\* For contrast: the elements checked before the length is compared.
FixedTupleElementsFirst(p, nArgs, nValue, elemChecks) ==
    IF ~Ok(FirstRaise(elemChecks)) THEN FirstRaise(elemChecks)
    ELSE IF nValue # nArgs THEN GU_TypeValidationError(p, "must be a tuple of length")
    ELSE Returned
\* The fixed-arity tuple branch's order: the length is compared before any
\* element is checked.
FixedTuple(p, nArgs, nValue, elemChecks) ==
    IF nValue # nArgs THEN GU_TypeValidationError(p, "must be a tuple of length")
    ELSE FirstRaise(elemChecks)

\* The except clause of the fallback for annotations that are no class: a
\* TypeError of the host isinstance() becomes a GU_TypeValidationError.
\* isinstance(value, expected) raises for every such annotation of the model
\* (a NewType, the Ellipsis object).
NonClassFallback(p) == GU_TypeValidationError(p, "must be of type")

RECURSIVE enforce_type(_, _, _)
enforce_type(v, e, p) ==
    LET args == IF "args" \in DOMAIN e THEN e.args ELSE <<>>
        items == IterItems(v)
        \* for i, item in enumerate(value): enforce_type(item, elem_t, path.add_index_or_key(i))
        elems(elem_t) ==
            [i \in DOMAIN items |->
                enforce_type(items[i], elem_t, add_index_or_key(p, IntRepr(i - 1)))]
        elem_t == IF args # <<>> THEN args[1] ELSE Any
        key_t == IF Len(args) >= 1 THEN args[1] ELSE Any
        val_t == IF Len(args) >= 2 THEN args[2] ELSE Any
        keys_path == add_attribute(p, "keys()")
        entries ==
            LET keyChecks == [i \in DOMAIN v.entries |->
                    enforce_type(Atom(v.entries[i][1]), key_t,
                                 add_index_or_key(keys_path, IntRepr(i - 1)))]
                valChecks == [i \in DOMAIN v.entries |->
                    enforce_type(v.entries[i][2], val_t,
                                 add_index_or_key(p, v.entries[i][1]))]
            IN  FirstRaise(EntryChecks(keyChecks, valChecks))
    IN
    \* --- Handle Any ---
    IF e.t = "Any" THEN Returned
    \* --- Handle TypeVar ---
    ELSE IF e.t = "TypeVar" THEN
        (IF args # <<>> THEN enforce_type(v, args[1], p) ELSE Returned)
    \* --- Handle Union / Optional ---
    ELSE IF is_union(e) THEN
        UnionOutcome([i \in DOMAIN args |-> enforce_type(v, args[i], p)], p)
    \* --- Handle type[T] ---
    ELSE IF e.t = "type" THEN
        IF ~IsInstance(v, "type") THEN GU_TypeValidationError(p, "must be a class")
        ELSE LET arg == IF args # <<>> THEN args[1] ELSE Class("object")
                 target == IF arg.t = "TypeVar"
                           THEN (IF arg.args # <<>> THEN arg.args[1] ELSE Class("object"))
                           ELSE arg
                 targets == IF is_union(target) THEN target.args ELSE <<target>>
                 isObject == target.t = "class" /\ target.name = "object"
                 sub == issubclass(v, targets)
             IN  IF isObject THEN Returned
                 ELSE IF sub = "TypeError" THEN HostTypeError
                 ELSE IF sub = "no" THEN GU_TypeValidationError(p, "must be a subclass of")
                 ELSE Returned
    \* --- Handle dict[K,V] ---
    ELSE IF e.t = "dict" THEN
        IF ~IsInstance(v, "dict") THEN GU_TypeValidationError(p, "must be a dict")
        ELSE entries
    \* --- Handle tuple[T,...] or fixed tuple ---
    ELSE IF e.t = "tuple" THEN
        IF ~IsInstance(v, "tuple") THEN GU_TypeValidationError(p, "must be a tuple")
        ELSE IF Len(args) = 2 /\ args[2].t = "Ellipsis" THEN FirstRaise(elems(args[1]))
        ELSE IF args # <<>> THEN
            FixedTuple(p, Len(args), Len(items),
                [i \in 1..(IF Len(items) < Len(args) THEN Len(items) ELSE Len(args)) |->
                    enforce_type(items[i], args[i], add_index_or_key(p, IntRepr(i - 1)))])
        ELSE Returned
    \* --- Handle list[T], set[T], frozenset[T] ---
    ELSE IF e.t \in {"list", "set", "frozenset"} THEN
        IF ~IsInstance(v, e.t) THEN GU_TypeValidationError(p, "must be a " \o e.t)
        ELSE FirstRaise(elems(elem_t))
    \* --- Handle Callable ---
    ELSE IF e.t = "Callable" THEN
        IF ~IsCallable(v) THEN GU_TypeValidationError(p, "must be Callable")
        ELSE Returned
    \* --- Handle Mapping[K, V] ---
    ELSE IF e.t = "Mapping" THEN
        IF ~IsInstanceABC(v, "Mapping") THEN GU_TypeValidationError(p, "must be a Mapping")
        ELSE entries
    \* --- Handle Sequence[T] ---
    ELSE IF e.t = "Sequence" THEN
        IF ~IsInstanceABC(v, "Sequence") THEN GU_TypeValidationError(p, "must be a Sequence")
        ELSE FirstRaise(elems(elem_t))
    \* --- Handle Iterable[T] ---
    ELSE IF e.t = "Iterable" THEN
        IF ~IsInstanceABC(v, "Iterable") THEN GU_TypeValidationError(p, "must be an Iterable")
        ELSE IF ClassOf(v) = "str" THEN Returned
        ELSE FirstRaise(elems(elem_t))
    \* --- Handle Literal[V, ...] ---
    ELSE IF e.t = "Literal" THEN
        IF v.kind = "atom" /\ \E i \in DOMAIN e.values : PyEq(v.a, e.values[i])
        THEN Returned
        ELSE GU_TypeValidationError(p, "must be one of Literal")
    \* --- Fallback: plain class or special typing objects ---
    ELSE IF e.t = "class" THEN
        IF ~IsInstance(v, e.name) THEN GU_TypeValidationError(p, "must be of type")
        ELSE Returned
    ELSE IF e.t \in {"NewType", "Ellipsis"} THEN NonClassFallback(p)
    \* --- Last fallback: ignore parameterization, just check origin ---
    ELSE LET c == OriginCheck(v, e.t)
         IN  IF c = "TypeError" THEN HostTypeError
             ELSE IF c = "no" THEN GU_TypeValidationError(p, "must be of type")
             ELSE Returned

----------------------------------------------------------------------------
(***************************************************************************)
(* The inputs of enforce_type                                              *)
(***************************************************************************)

\* Sequences over S of length at most n.
SeqsUpTo(S, n) == UNION {[1..k -> S] : k \in 0..n}

\* Those of them that repeat no element (a set's elements, a dict's keys).
Distinct(seqs) == {s \in seqs : \A i, j \in DOMAIN s : s[i] = s[j] => i = j}

List(items) == [kind |-> "list", items |-> items]
Tuple(items) == [kind |-> "tuple", items |-> items]
Set(items) == [kind |-> "set", items |-> items]
FrozenSet(items) == [kind |-> "frozenset", items |-> items]
Dict(entries) == [kind |-> "dict", entries |-> entries]

AtomValues == {Atom(a) : a \in {"0", "True", "'a'", "None", "NotSet", "f", "int", "bool"}}

\* What the flat containers hold: an int, a str, a class object.
Elems == {Atom("0"), Atom("'a'"), Atom("int")}

FlatValues ==
    {List(s) : s \in SeqsUpTo(Elems, MaxLen)}
    \cup {Tuple(s) : s \in SeqsUpTo(Elems, MaxLen)}
    \cup {Set(s) : s \in Distinct(SeqsUpTo(Elems, MaxLen))}
    \cup {FrozenSet(s) : s \in Distinct(SeqsUpTo(Elems, MaxLen))}

DictKeys == {"0", "1", "'a'"}
DictVals == {Atom("0"), Atom("'a'")}

DictValues ==
    {Dict(s) : s \in {d \in SeqsUpTo(DictKeys \X DictVals, MaxLen) :
                        \A i, j \in DOMAIN d : d[i][1] = d[j][1] => i = j}}
    \cup {Dict(<<<<"'a'", List(<<Atom("0"), Atom("'a'")>>)>>>>),
          Dict(<<<<"0", Atom("0")>>, <<"'a'", List(<<Atom("'a'")>>)>>>>)}

Inner == {Atom("0"), List(<<Atom("0")>>), List(<<Atom("'a'")>>),
          List(<<Atom("0"), Atom("'a'")>>), Tuple(<<Atom("0"), Atom("'a'")>>)}

NestedValues == {List(s) : s \in SeqsUpTo(Inner, MaxLen)}

Values == AtomValues \cup FlatValues \cup DictValues \cup NestedValues

IntT == Class("int")
StrT == Class("str")
UserId == NewType("UserId")

ElemTypes == {Any, IntT, StrT, Generic("list", <<IntT>>), Union(<<IntT, StrT>>),
              Generic("type", <<UserId>>)}

\* tuple[T1, ..., Tn] for n = 1..3
FixedTupleTypes ==
    {Generic("tuple", s) : s \in SeqsUpTo({IntT, StrT}, 3) \ {<<>>}}
    \cup {Generic("tuple", <<Generic("list", <<IntT>>), IntT>>)}

Arms == {IntT, StrT, Class("NoneType"), Generic("list", <<IntT>>), Generic("list", <<StrT>>),
         Generic("type", <<UserId>>), Class("type")}

\* Python folds a union of equal arms into the arm itself: arms differ.
UnionTypes ==
    {u \in {Union(<<a, b>>) : a, b \in Arms} : u.args[1] # u.args[2]}
    \cup {Union(<<IntT, StrT, Class("NoneType")>>),
          Union(<<Generic("list", <<Generic("list", <<IntT>>)>>), IntT>>)}

TypeTypes ==
    {Generic("type", <<>>)}
    \cup {Generic("type", <<a>>) :
            a \in {IntT, Any, UserId, Class("object"), Generic("list", <<IntT>>),
                   Union(<<IntT, StrT>>), Union(<<Class("bool"), UserId>>),
                   Union(<<UserId, IntT>>), TypeVar(<<>>), TypeVar(<<IntT>>)}}

OtherTypes ==
    {Any, TypeVar(<<>>), TypeVar(<<IntT>>), TypeVar(<<Generic("list", <<IntT>>)>>),
     Generic("list", <<>>), Generic("tuple", <<>>), Generic("dict", <<>>),
     Generic("dict", <<StrT>>),
     Generic("Callable", <<>>), Generic("Mapping", <<StrT, IntT>>),
     Generic("Sequence", <<IntT>>), Generic("Sequence", <<StrT>>),
     Generic("Iterable", <<IntT>>), Generic("Iterable", <<StrT>>),
     Literal(<<"0", "'a'">>), Literal(<<"1">>),
     IntT, StrT, Class("bool"), Class("object"), Class("NoneType"), Class("type"),
     Class("list"), Class("dict"), Class("NotSetType"),
     UserId, Ellipsis,
     Generic("Collection", <<IntT>>), Generic("deque", <<IntT>>), Generic("ClassVar", <<IntT>>)}

Types ==
    {Generic(o, <<a>>) : o \in {"list", "set", "frozenset"}, a \in ElemTypes}
    \cup {Generic("tuple", <<a, Ellipsis>>) : a \in ElemTypes}
    \cup FixedTupleTypes
    \cup {Generic("dict", <<k, v>>) : k \in {IntT, StrT, Any},
                                     v \in {IntT, StrT, Generic("list", <<IntT>>)}}
    \cup UnionTypes \cup TypeTypes \cup OtherTypes

\* AbstractTreePath() and AbstractTreePath(start_with_dot=False).add_attribute("arg")
StartPaths == {AbstractTreePath(<<>>, TRUE),
               AbstractTreePath(<<ATPathAttribute("arg")>>, FALSE)}

----------------------------------------------------------------------------
(***************************************************************************)
(* The specification of one enforce_type call                              *)
(***************************************************************************)

Idle == "idle"

InitEnforce ==
    /\ pc = "call"
    /\ value \in Values
    /\ expected \in Types
    /\ path \in StartPaths
    /\ result = Idle
    /\ self = Idle /\ calls = <<>>
    /\ root = Idle /\ included = {} /\ visited = Idle
    /\ heap = <<>> /\ op = Idle

\* enforce_type(value, expected, path)
EnforceType ==
    /\ pc = "call"
    /\ pc' = "done"
    /\ result' = enforce_type(value, expected, path)
    /\ UNCHANGED <<value, expected, path, self, calls, root, included, visited, heap, op>>

NextEnforce == EnforceType

SpecEnforce == InitEnforce /\ [][NextEnforce]_vars

----------------------------------------------------------------------------
(***************************************************************************)
(* Properties of enforce_type (checked under SpecEnforce)                  *)
(***************************************************************************)

\* v passes enforce_type against T (the call returns normally).
Passes(v, T) == Ok(enforce_type(v, T, AbstractTreePath(<<>>, TRUE)))

\* The least element of a non-empty set of integers.
Least(S) == CHOOSE i \in S : \A j \in S : i <= j

IsTVE(r) == r.error = "GU_TypeValidationError"

\* path extended by the index-or-key segment k
Under(p, k) == Append(p.path, ATPathIndexOrKey(k))

\* C1: enforce_type(L, list[T], path=p) succeeds iff L is a list and every
\* element of L passes T; a GU_TypeValidationError raised because of an
\* element is the one of the lowest-index failing element: its path is p
\* extended by that index (and further inside that element), never by the
\* index of a later element.
C1_ListElements ==
    (pc = "done" /\ expected.t = "list" /\ Len(expected.args) = 1) =>
        LET T == expected.args[1]
            isList == IsInstance(value, "list")
            failing == IF isList
                       THEN {i \in DOMAIN value.items : ~Passes(value.items[i], T)}
                       ELSE {}
        IN  /\ Ok(result) <=> (isList /\ failing = {})
            /\ (isList /\ failing # {} /\ IsTVE(result)) =>
                  /\ IsPrefix(Under(path, IntRepr(Least(failing) - 1)), result.path)
                  /\ result = enforce_type(value.items[Least(failing)], T,
                                  add_index_or_key(path, IntRepr(Least(failing) - 1)))
            /\ (~isList) => (IsTVE(result) /\ result.path = path.path)

\* C1 witness: a list with two failing elements was checked and the error
\* names the first of them.
C1_Witness ==
    /\ pc = "done" /\ expected.t = "list" /\ Len(expected.args) = 1
    /\ value.kind = "list"
    /\ Cardinality({i \in DOMAIN value.items : ~Passes(value.items[i], expected.args[1])}) >= 2
    /\ IsTVE(result) /\ result.path = Under(path, "0")

\* C2 (as claimed): enforce_type(v, A1 | ... | An, path=p) succeeds iff some
\* arm accepts v, and when no arm does, one GU_TypeValidationError is raised
\* at p itself.
C2_UnionAsClaimed ==
    (pc = "done" /\ is_union(expected)) =>
        LET accepted == \E i \in DOMAIN expected.args : Passes(value, expected.args[i])
        IN  /\ Ok(result) <=> accepted
            /\ (~accepted) => (IsTVE(result) /\ result.path = path.path
                                /\ result.msg = "must be one of types")

\* C3: enforce_type(d, dict[K, V], path=p) succeeds iff d is a dict and
\* every key passes K and every value passes V; the error raised is that of
\* the first failing check, entries taken in iteration order and the key
\* before the value within an entry: a key at position i fails at
\* p.keys()[i], a value under key k fails at p[k].
C3_DictEntries ==
    (pc = "done" /\ expected.t = "dict" /\ Len(expected.args) = 2) =>
        LET K == expected.args[1]
            V == expected.args[2]
            isDict == IsInstance(value, "dict")
            badKey(i) == ~Passes(Atom(value.entries[i][1]), K)
            badVal(i) == ~Passes(value.entries[i][2], V)
            failing == IF isDict
                       THEN {i \in DOMAIN value.entries : badKey(i) \/ badVal(i)}
                       ELSE {}
            first == Least(failing)
            keysPath == Append(path.path, ATPathAttribute("keys()"))
        IN  /\ Ok(result) <=> (isDict /\ failing = {})
            /\ (~isDict) => (IsTVE(result) /\ result.path = path.path)
            /\ (isDict /\ failing # {} /\ IsTVE(result)) =>
                  IF badKey(first)
                  THEN result.path = Append(keysPath, ATPathIndexOrKey(IntRepr(first - 1)))
                  ELSE IsPrefix(Under(path, value.entries[first][1]), result.path)

\* C3 witness: an entry whose key and value both fail, after an entry that
\* passes, is reported at its key.
C3_Witness ==
    /\ pc = "done" /\ expected = Generic("dict", <<StrT, IntT>>)
    /\ value = Dict(<<<<"'a'", Atom("0")>>, <<"0", Atom("'a'")>>>>)
    /\ result.path = path.path \o <<ATPathAttribute("keys()"), ATPathIndexOrKey("1")>>

\* The tuple annotations with one declared type per position: tuple[T1, ..., Tn], n >= 1.
IsFixedTuple(e) ==
    /\ e.t = "tuple" /\ e.args # <<>>
    /\ ~(Len(e.args) = 2 /\ e.args[2].t = "Ellipsis")

C5_OnlyTypeValidationErrors ==
    pc = "done" => result.error \in {"none", "GU_TypeValidationError"}

----------------------------------------------------------------------------
(***************************************************************************)
(* base.grepr_dataclass: the validate method of a record                   *)
(*                                                                         *)
(* A record instance is [fields |-> <<field, ...>>, post_validate |-> pv]: *)
(* its dataclass fields in declaration order, each                         *)
(*   [name, type, options, present, value]                                 *)
(* with `options` the field's entry of FIELD_OPTIONS, `present` what       *)
(* hasattr(self, name) answers and `value` the attribute's value; pv is    *)
(* "undefined" when the class has no callable post_validate, and otherwise *)
(* how that method ends ("returns", "raises").  A value that is an         *)
(* instance of another record class carries `validate`: "returns" or       *)
(* "raises" for a validate method, "not_callable" for an attribute of that *)
(* name that is no method.                                                 *)
(***************************************************************************)

\* base.FIELD_OPTIONS[field], as update_field stores it
FieldOptions(validate_type, validator_fn, validate_require_exist, call_subvalidate) ==
    [grepr |-> TRUE, validate_type |-> validate_type, validator_fn |-> validator_fn,
     validate_require_exist |-> validate_require_exist,
     call_subvalidate |-> call_subvalidate]

get_field_options(field) == field.options

NotSet == Atom("NotSet")

\* A call validate_method makes, and whether it raised:
\* enforce_type for a field, field_value.validate(...), self.post_validate(...)
Call(name, field, p, outcome) ==
    [call |-> name, field |-> field, path |-> p.path, outcome |-> outcome]

\* What user code (a nested validate, post_validate) raises when it rejects.
UserError(p, msg) == [error |-> "GU_InvalidValueError", path |-> p.path, msg |-> msg]

\* callable(getattr(v, "validate", None))
HasCallableValidate(v) ==
    v.kind = "object" /\ "validate" \in DOMAIN v /\ v.validate \in {"returns", "raises"}

\* For contrast: the first loop with the test for an absent field that is
\* required to exist made before the test of validate_type.
TypeStepAbsentFirst(field, p) ==
    LET options == get_field_options(field)
        fpath == add_attribute(p, field.name)
    IN  IF ~field.present /\ options.validate_require_exist THEN
            <<Call("enforce_type", field.name, fpath,
                   enforce_type(NotSet, field.type, fpath))>>
        ELSE IF ~options.validate_type THEN <<>>
        ELSE IF field.present THEN
            <<Call("enforce_type", field.name, fpath,
                   enforce_type(field.value, field.type, fpath))>>
        ELSE <<>>

\* One iteration of the first loop: the enforce_type call it makes for the
\* field, if any.
TypeStep(field, p) ==
    LET options == get_field_options(field)
        fpath == add_attribute(p, field.name)
    IN  IF ~options.validate_type THEN <<>>
        ELSE IF field.present THEN
            <<Call("enforce_type", field.name, fpath,
                   enforce_type(field.value, field.type, fpath))>>
        ELSE IF options.validate_require_exist THEN
            <<Call("enforce_type", field.name, fpath,
                   enforce_type(NotSet, field.type, fpath))>>
        ELSE <<>>

\* One iteration of the second loop: the nested validate call it makes for
\* the field, if any.
SubStep(field, p) ==
    LET options == get_field_options(field)
        field_value == IF field.present THEN field.value ELSE Atom("None")
        fpath == add_attribute(p, field.name)
    IN  IF ~options.call_subvalidate THEN <<>>
        ELSE IF HasCallableValidate(field_value) THEN
            <<Call("validate", field.name, fpath,
                   IF field_value.validate = "raises"
                   THEN UserError(fpath, "validate") ELSE Returned)>>
        ELSE <<>>

\* The last statement: self.post_validate(path, ...) if the record has one.
PostStep(rec, p) ==
    IF rec.post_validate = "undefined" THEN <<>>
    ELSE <<Call("post_validate", "", p,
                IF rec.post_validate = "raises"
                THEN UserError(p, "post_validate") ELSE Returned)>>

\* The concatenation of the sequences of a sequence.
RECURSIVE Flatten(_)
Flatten(ss) == IF ss = <<>> THEN <<>> ELSE Head(ss) \o Flatten(Tail(ss))

\* For contrast: every statement run whatever the earlier ones raised.
RunAll(steps) ==
    [calls |-> steps, result |-> LastRaise([i \in DOMAIN steps |-> steps[i].outcome])]
\* Statements run in order and the first exception ends the method: the
\* calls made are those up to the first that raises, whose error is the
\* method's; with none raising, the method returns.
Run(steps) ==
    LET bad == {i \in DOMAIN steps : ~Ok(steps[i].outcome)}
        stop == IF bad = {} THEN Len(steps) ELSE CHOOSE i \in bad : \A j \in bad : i <= j
    IN  [calls |-> SubSeq(steps, 1, stop),
         result |-> IF bad = {} THEN Returned ELSE steps[stop].outcome]

\* grepr_dataclass.validate_method(self, path)
validate_method(rec, p) ==
    Run(Flatten([i \in DOMAIN rec.fields |-> TypeStep(rec.fields[i], p)])
        \o Flatten([i \in DOMAIN rec.fields |-> SubStep(rec.fields[i], p)])
        \o PostStep(rec, p))

----------------------------------------------------------------------------
(***************************************************************************)
(* The specification of one validate() call                                *)
(***************************************************************************)

SubRecord(validate) == [kind |-> "object", cls |-> "SubRecord", validate |-> validate]

FieldNames == <<"a", "b">>

\* The values a present field holds.
FieldValues == {Atom("0"), SubRecord("returns"), SubRecord("raises"),
                SubRecord("not_callable")}

FieldTypes == {IntT, Any, Class("SubRecord")}

AllFieldOptions ==
    {FieldOptions(vt, fn, re, cs) :
        vt \in BOOLEAN, fn \in {"None", "rejects"}, re \in BOOLEAN, cs \in BOOLEAN}

Fields(name) ==
    {[name |-> name, type |-> ty, options |-> o, present |-> TRUE, value |-> v] :
        ty \in FieldTypes, o \in AllFieldOptions, v \in FieldValues}
    \cup {[name |-> name, type |-> ty, options |-> o, present |-> FALSE, value |-> NotSet] :
        ty \in FieldTypes, o \in AllFieldOptions}

Records ==
    {[fields |-> <<a, b>>, post_validate |-> pv] :
        a \in Fields(FieldNames[1]), b \in Fields(FieldNames[2]),
        pv \in {"undefined", "returns", "raises"}}

\* validate()'s default path, and the path a parent record passes down.
ValidatePaths == {AbstractTreePath(<<>>, TRUE),
                  AbstractTreePath(<<ATPathAttribute("child")>>, TRUE)}

InitValidate ==
    /\ pc = "call"
    /\ self \in Records
    /\ path \in ValidatePaths
    /\ calls = <<>> /\ result = Idle
    /\ value = Idle /\ expected = Idle
    /\ root = Idle /\ included = {} /\ visited = Idle
    /\ heap = <<>> /\ op = Idle

\* self.validate(path)
Validate ==
    /\ pc = "call"
    /\ pc' = "done"
    /\ calls' = validate_method(self, path).calls
    /\ result' = validate_method(self, path).result
    /\ UNCHANGED <<value, expected, path, self, root, included, visited, heap, op>>

NextValidate == Validate

SpecValidate == InitValidate /\ [][NextValidate]_vars

----------------------------------------------------------------------------
(***************************************************************************)
(* Properties of validate() (checked under SpecValidate)                   *)
(***************************************************************************)

\* The position of the field called name among the record's fields.
FieldIndex(name) == CHOOSE i \in DOMAIN self.fields : self.fields[i].name = name

\* path.add_attribute(name), as a segment sequence
FieldPath(name) == Append(path.path, ATPathAttribute(name))

\* The type check of an earlier field than the i-th raised.
EarlierTypeCheckRaised(i) ==
    \E k \in DOMAIN calls :
        /\ calls[k].call = "enforce_type"
        /\ FieldIndex(calls[k].field) < i
        /\ ~Ok(calls[k].outcome)

\* C6 (as claimed): for a type-checked field that is absent on the
\* instance, whatever its declared type: with validate_require_exist = false
\* validate() raises nothing at that field; with validate_require_exist =
\* true it raises a GU_TypeValidationError at the field's path (unless an
\* earlier field's check already raised).
C6_AbsentFieldAsClaimed ==
    pc = "done" =>
        \A i \in DOMAIN self.fields :
            LET f == self.fields[i]
            IN  (~f.present /\ f.options.validate_type) =>
                    /\ ~f.options.validate_require_exist =>
                          (Ok(result) \/ result.path # FieldPath(f.name))
                    /\ (f.options.validate_require_exist /\ ~EarlierTypeCheckRaised(i)) =>
                          (IsTVE(result) /\ result.path = FieldPath(f.name))

\* C7 (as claimed): a field declared with a validator_fn has that validator
\* invoked by validate(), so a present value of a type-checked field that
\* the validator rejects makes validate() fail.
C7_ValidatorInvokedAsClaimed ==
    pc = "done" =>
        \A i \in DOMAIN self.fields :
            (/\ self.fields[i].present
             /\ self.fields[i].options.validate_type
             /\ self.fields[i].options.validator_fn = "rejects") => ~Ok(result)

\* The phase a call belongs to.
Phase(c) == CASE c.call = "enforce_type"  -> 1
              [] c.call = "validate"      -> 2
              [] c.call = "post_validate" -> 3

\* C8: validate() makes its calls in three phases, in this order: the type
\* checks of the type-checked fields in declaration order, then the nested
\* validate() of each field with call_subvalidate whose value has a callable
\* validate (with the path extended by the field name, and of no other
\* field), then post_validate if the record defines it.  The first call
\* that raises ends validate() with that error: no call follows it, so
\* after a failed type check no nested validate() and no post_validate is
\* made; and every call due before the one that raised was made.
C8_ValidatePhases ==
    pc = "done" =>
        LET n == Len(calls)
            fld(c) == self.fields[FieldIndex(c.field)]
            typeDue == {i \in DOMAIN self.fields :
                          self.fields[i].options.validate_type /\ self.fields[i].present}
            subDue == {i \in DOMAIN self.fields :
                          /\ self.fields[i].options.call_subvalidate
                          /\ self.fields[i].present
                          /\ HasCallableValidate(self.fields[i].value)}
            made(name, i) == \E k \in 1..n :
                                calls[k].call = name /\ calls[k].field = self.fields[i].name
            reached(ph) == Ok(result) \/ (n > 0 /\ Phase(calls[n]) >= ph)
        IN  /\ \A i, j \in 1..n : i < j =>
                  \/ Phase(calls[i]) < Phase(calls[j])
                  \/ /\ Phase(calls[i]) = Phase(calls[j]) /\ Phase(calls[i]) # 3
                     /\ FieldIndex(calls[i].field) < FieldIndex(calls[j].field)
            /\ \A k \in 1..n :
                  CASE calls[k].call = "enforce_type" ->
                          /\ fld(calls[k]).options.validate_type
                          /\ calls[k].path = FieldPath(calls[k].field)
                    [] calls[k].call = "validate" ->
                          /\ FieldIndex(calls[k].field) \in subDue
                          /\ calls[k].path = FieldPath(calls[k].field)
                    [] calls[k].call = "post_validate" ->
                          /\ self.post_validate # "undefined"
                          /\ calls[k].path = path.path
            /\ \A k \in 1..n : k < n => Ok(calls[k].outcome)
            /\ result = IF n > 0 /\ ~Ok(calls[n].outcome) THEN calls[n].outcome ELSE Returned
            /\ (\E k \in 1..n : calls[k].call = "enforce_type" /\ ~Ok(calls[k].outcome)) =>
                  \A k \in 1..n : calls[k].call = "enforce_type"
            /\ reached(2) => \A i \in typeDue : made("enforce_type", i)
            /\ reached(3) => \A i \in subDue : made("validate", i)
            /\ Ok(result) => (self.post_validate # "undefined" =>
                                \E k \in 1..n : calls[k].call = "post_validate")

\* C8 witness: the second field's type check fails on a record whose first
\* field is due a nested validate() and that defines post_validate: only the
\* two type checks were made.
C8_Witness ==
    /\ pc = "done"
    /\ self.fields[1].options.call_subvalidate /\ self.fields[1].present
    /\ HasCallableValidate(self.fields[1].value)
    /\ self.post_validate = "returns"
    /\ Len(calls) = 2 /\ calls[1].call = "enforce_type" /\ calls[2].call = "enforce_type"
    /\ IsTVE(result) /\ result.path = FieldPath(self.fields[2].name)

\* C30: a field with validate_type = false is skipped by the type phase of
\* validate(): no enforce_type call is made for it, and validate() raises no
\* type validation error at or below the field's path, whether the field
\* holds a value of a wrong type or is absent, also with
\* validate_require_exist = true.
C30_TypeCheckSkipped ==
    pc = "done" =>
        \A i \in DOMAIN self.fields :
            ~self.fields[i].options.validate_type =>
                /\ \A k \in DOMAIN calls :
                      ~(calls[k].call = "enforce_type"
                          /\ calls[k].field = self.fields[i].name)
                /\ ~(IsTVE(result)
                      /\ IsPrefix(FieldPath(self.fields[i].name), result.path))

\* C30 witness: validate() returns on a record whose first field is not
\* type-checked and holds a value that is not of its type, and whose second
\* field is not type-checked, required to exist and absent.
C30_Witness ==
    /\ pc = "done" /\ Ok(result)
    /\ ~self.fields[1].options.validate_type
    /\ self.fields[1].present
    /\ self.fields[1].type = IntT /\ self.fields[1].value = SubRecord("not_callable")
    /\ ~self.fields[2].options.validate_type
    /\ self.fields[2].options.validate_require_exist
    /\ ~self.fields[2].present

----------------------------------------------------------------------------
(***************************************************************************)
(* tree_tools.TreeVisitor                                                  *)
(*                                                                         *)
(* An instance of a class is [kind |-> "object", cls |-> name] with, as    *)
(* the class has them:                                                     *)
(*   fields  |-> << <<name, value>>, ... >>   the class is a dataclass     *)
(*   items   |-> <<...>>                      the class derives from list  *)
(*   entries |-> <<...>>                      the class derives from dict  *)
(*   hook    |-> << <<segments, value>>, ... >>                            *)
(*       the class defines _visit_node_unfiltered_(path), which returns    *)
(*       one pair (path extended by segments, value) for each of these     *)
(***************************************************************************)

\* callable(getattr(obj, "_visit_node_unfiltered_", None))
HasHook(obj) == obj.kind = "object" /\ "hook" \in DOMAIN obj

\* obj._visit_node_unfiltered_(path)
HookPairs(obj, p) ==
    [i \in DOMAIN obj.hook |->
        <<AbstractTreePath(p.path \o obj.hook[i][1], p.start_with_dot), obj.hook[i][2]>>]

\* For contrast: only the first declared field.
get_yield_fields_first(obj) ==
    IF obj.kind = "object" /\ "fields" \in DOMAIN obj THEN SubSeq(obj.fields, 1, 1) ELSE <<>>
\* TreeVisitor._get_yield_fields(type(obj)): the dataclass fields' names
\* with, here, the value getattr(obj, field) finds; [] for any other class.
get_yield_fields(obj) ==
    IF obj.kind = "object" /\ "fields" \in DOMAIN obj THEN obj.fields ELSE <<>>

\* The branch _visit_node_unfiltered takes for obj.
VisitBranch(obj) ==
    IF \E c \in {"list", "tuple", "set", "frozenset"} : IsInstance(obj, c)
    THEN "collection"
    ELSE IF IsInstance(obj, "dict") THEN "dict"
    ELSE IF HasHook(obj) THEN "hook"
    ELSE "fields"

\* For contrast: a record's fields that are None kept as children.
ChildrenWithNone(obj) ==
    CASE VisitBranch(obj) = "collection" ->
            [i \in DOMAIN obj.items |-> <<ATPathIndexOrKey(IntRepr(i - 1)), obj.items[i]>>]
      [] VisitBranch(obj) = "dict" ->
            [i \in DOMAIN obj.entries |->
                <<ATPathIndexOrKey(obj.entries[i][1]), obj.entries[i][2]>>]
      [] OTHER ->
            [i \in DOMAIN get_yield_fields(obj) |->
                <<ATPathAttribute(get_yield_fields(obj)[i][1]), get_yield_fields(obj)[i][2]>>]
\* The children the default traversal finds under obj, with the segment
\* each is reached by, in order.
Children(obj) ==
    CASE VisitBranch(obj) = "collection" ->
            [i \in DOMAIN obj.items |-> <<ATPathIndexOrKey(IntRepr(i - 1)), obj.items[i]>>]
      [] VisitBranch(obj) = "dict" ->
            [i \in DOMAIN obj.entries |->
                <<ATPathIndexOrKey(obj.entries[i][1]), obj.entries[i][2]>>]
      [] OTHER ->
            LET fields == get_yield_fields(obj)
                kept == SelectSeq(fields, LAMBDA f : f[2] # Atom("None"))
            IN  [i \in DOMAIN kept |-> <<ATPathAttribute(kept[i][1]), kept[i][2]>>]

\* TreeVisitor._visit_node_unfiltered(obj, path)
RECURSIVE visit_node_unfiltered(_, _)
visit_node_unfiltered(obj, p) ==
    IF VisitBranch(obj) = "hook" THEN HookPairs(obj, p)
    ELSE LET children == Children(obj)
             current_path(i) == AbstractTreePath(Append(p.path, children[i][1]),
                                                 p.start_with_dot)
         IN  Flatten([i \in DOMAIN children |->
                        <<<<current_path(i), children[i][2]>>>>
                        \o visit_node_unfiltered(children[i][2], current_path(i))])

\* isinstance(v, self.included_types)
IsIncluded(v, types) == \E c \in types : IsInstance(v, c)

\* The dict built from the pairs that pass the filter: a later pair
\* replaces an earlier one with an equal path.
FilteredMap(pairs, types) ==
    LET keep == {i \in DOMAIN pairs : IsIncluded(pairs[i][2], types)}
        last(q) == CHOOSE i \in keep : pairs[i][1] = q /\ \A j \in keep : pairs[j][1] = q => j <= i
    IN  [q \in {pairs[i][1] : i \in keep} |-> pairs[last(q)][2]]

\* TreeVisitor.visit_tree(self, obj)
visit_tree(types, obj) ==
    FilteredMap(visit_node_unfiltered(obj, AbstractTreePath(<<>>, TRUE)), types)

----------------------------------------------------------------------------
(***************************************************************************)
(* The trees visited                                                       *)
(***************************************************************************)

\* An instance of a dataclass with the fields x and y.
DataNode(cls, x, y) ==
    [kind |-> "object", cls |-> cls, fields |-> <<<<"x", x>>, <<"y", y>>>>]

\* An instance of a class that is no dataclass and no collection.
PlainObject == [kind |-> "object", cls |-> "Plain"]

\* obj, of a class that defines _visit_node_unfiltered_ to return hook.
WithHook(obj, hook) ==
    [f \in DOMAIN obj \cup {"hook"} |-> IF f = "hook" THEN hook ELSE obj[f]]

\* A hook that returns one pair, (path.add_index_or_key('k'), 'a'): a key
\* that no default traversal of the trees below produces.
HookYield == <<<<<<ATPathIndexOrKey("'k'")>>, Atom("'a'")>>>>

Leaves == {Atom("0"), Atom("True"), Atom("'a'"), Atom("None")}

HookFreeNodes ==
    {List(<<Atom("0"), Atom("'a'")>>), Tuple(<<Atom("True")>>),
     FrozenSet(<<Atom("'a'")>>), Dict(<<<<"'a'", Atom("0")>>>>),
     DataNode("SubRecord", Atom("None"), Atom("0")), PlainObject}

HookNodes ==
    {WithHook(PlainObject, HookYield),
     WithHook(DataNode("Record", Atom("0"), Atom("None")), <<>>),
     WithHook([kind |-> "object", cls |-> "ListNode", items |-> <<Atom("0")>>], <<>>),
     WithHook([kind |-> "object", cls |-> "DictNode",
               entries |-> <<<<"'a'", Atom("0")>>>>], HookYield)}

Kids == Leaves \cup HookFreeNodes \cup HookNodes

TreeKeys == {"'a'", "0"}

Trees ==
    {List(s) : s \in SeqsUpTo(Kids, MaxLen)}
    \cup {Tuple(s) : s \in SeqsUpTo(Leaves, MaxLen)}
    \cup {Set(s) : s \in Distinct(SeqsUpTo(Leaves, MaxLen))}
    \cup {Dict(e) : e \in {e \in SeqsUpTo(TreeKeys \X Kids, MaxLen) :
                              \A i, j \in DOMAIN e : e[i][1] = e[j][1] => i = j}}
    \cup {DataNode(c, x, y) : c \in {"Record", "SubRecord"}, x \in Kids, y \in Kids}
    \cup {List(<<List(<<k>>)>>) : k \in Kids}
    \cup {DataNode("Record", Dict(<<<<"'a'", k>>>>), Atom("None")) : k \in Kids}
    \cup HookNodes \cup {PlainObject} \cup Leaves

\* TreeVisitor.included_types
IncludedTypes ==
    {{}, {"int"}, {"str", "NoneType"}, {"list", "tuple", "dict"}, {"Record"}, {"object"}}

InitVisit ==
    /\ pc = "call"
    /\ root \in Trees
    /\ included \in IncludedTypes
    /\ visited = Idle
    /\ heap = <<>> /\ op = Idle
    /\ value = Idle /\ expected = Idle /\ path = Idle /\ result = Idle
    /\ self = Idle /\ calls = <<>>

\* visitor.visit_tree(root)
VisitTree ==
    /\ pc = "call"
    /\ pc' = "done"
    /\ visited' = visit_tree(included, root)
    /\ UNCHANGED <<value, expected, path, result, self, calls, root, included, heap, op>>

NextVisit == VisitTree

SpecVisit == InitVisit /\ [][NextVisit]_vars

----------------------------------------------------------------------------
(***************************************************************************)
(* Claims about visit_tree                                                 *)
(***************************************************************************)

\* The nodes directly below v and the segment each is reached by, read off
\* the value: an element of a collection by its enumeration index, a value
\* of a mapping by its key, a field of a record that is not None by its
\* name.  Nothing is below any other value.
Below(v) ==
    IF "items" \in DOMAIN v
    THEN {<<ATPathIndexOrKey(IntRepr(i - 1)), v.items[i]>> : i \in DOMAIN v.items}
    ELSE IF "entries" \in DOMAIN v
    THEN {<<ATPathIndexOrKey(v.entries[i][1]), v.entries[i][2]>> : i \in DOMAIN v.entries}
    ELSE IF "fields" \in DOMAIN v
    THEN {<<ATPathAttribute(f[1]), f[2]>> :
            f \in {v.fields[i] : i \in {i \in DOMAIN v.fields : v.fields[i][2] # Atom("None")}}}
    ELSE {}

\* The nodes that the segments segs lead to from v (none, or one).
RECURSIVE NodesAt(_, _)
NodesAt(v, segs) ==
    IF segs = <<>> THEN {v}
    ELSE UNION {NodesAt(b[2], Tail(segs)) : b \in {b \in Below(v) : b[1] = Head(segs)}}

\* No node of the tree defines the traversal hook.
RECURSIVE HookFree(_)
HookFree(v) == ~HasHook(v) /\ \A b \in Below(v) : HookFree(b[2])

\* The number of levels below v.
RECURSIVE Height(_)
Height(v) ==
    IF Below(v) = {} THEN 0
    ELSE LET hs == {Height(b[2]) : b \in Below(v)}
         IN  1 + CHOOSE h \in hs : \A g \in hs : g <= h

\* Every segment a path in one of the trees can have.
TreeSegments ==
    {ATPathIndexOrKey(IntRepr(i)) : i \in 0..(MaxLen - 1)}
    \cup {ATPathIndexOrKey(k) : k \in TreeKeys}
    \cup {ATPathAttribute(f) : f \in {"x", "y"}}

\* v is an instance of one of the included types or of a subclass of one.
OfIncludedType(v) == \E c \in included : c \in Mro(ClassOf(v))

C10_HookDelegatesAsClaimed ==
    (pc = "done" /\ HasHook(root)) =>
        visited = FilteredMap(HookPairs(root, AbstractTreePath(<<>>, TRUE)), included)

\* The root is a record, and no collection, mapping or node with a hook.
IsRecordRoot == VisitBranch(root) = "fields" /\ get_yield_fields(root) # <<>>

\* The root is a plain object: no collection, mapping or record, no hook.
IsPlainRoot ==
    /\ root.kind = "object"
    /\ VisitBranch(root) = "fields"
    /\ "fields" \notin DOMAIN root

\* C11: a record contributes one child for each declared field whose value
\* is not None, at the Attribute segment named for the field: the child is
\* an entry when it is of an included type, and every entry lies at or
\* below such a child; a field that is None is not emitted and nothing
\* below it is, even when NoneType is included.  A plain object is a leaf:
\* visiting one as the root returns the empty map.
C11_RecordsAndLeaves ==
    pc = "done" =>
        /\ IsRecordRoot =>
              /\ \A i \in DOMAIN root.fields :
                    LET at == AbstractTreePath(<<ATPathAttribute(root.fields[i][1])>>, TRUE)
                        v == root.fields[i][2]
                    IN  IF v = Atom("None")
                        THEN \A q \in DOMAIN visited : Head(q.path) # Head(at.path)
                        ELSE /\ OfIncludedType(v) <=> at \in DOMAIN visited
                             /\ at \in DOMAIN visited => visited[at] = v
              /\ \A q \in DOMAIN visited :
                    \E i \in DOMAIN root.fields :
                       Head(q.path) = ATPathAttribute(root.fields[i][1])
        /\ IsPlainRoot => DOMAIN visited = {}

\* A visitor that includes NoneType has visited a record whose field x is
\* None and whose field y is not: y is an entry and nothing is at x.
C11_Witness ==
    /\ pc = "done" /\ IsRecordRoot
    /\ "NoneType" \in included
    /\ root.fields[1][2] = Atom("None")
    /\ AbstractTreePath(<<ATPathAttribute("y")>>, TRUE) \in DOMAIN visited
    /\ AbstractTreePath(<<ATPathAttribute("x")>>, TRUE) \notin DOMAIN visited

----------------------------------------------------------------------------
(***************************************************************************)
(* base.AbstractTreePath: the operations on paths                          *)
(*                                                                         *)
(* Path objects live in `heap`, a sequence indexed by object identity; an  *)
(* operation that constructs a path appends the new object.  Strings that  *)
(* are built or cut are sequences of characters.                           *)
(***************************************************************************)

MaxPathLen == 3

\* The characters of the strings that occur in segments: an attribute's
\* name is written as it is, a key as repr() writes it.
Chars(s) ==
    CASE s = "user" -> <<"u", "s", "e", "r">>
      [] s = "name" -> <<"n", "a", "m", "e">>
      [] s = "0"    -> <<"0">>
      [] s = "'a'"  -> <<"'", "a", "'">>
      [] s = "1"    -> <<"1">>
      [] s = "a"    -> <<"a">>
      [] s = "b"    -> <<"b">>
      [] s = "self" -> <<"s", "e", "l", "f">>
      [] s = "cls"  -> <<"c", "l", "s">>
      [] s = "keys()" -> <<"k", "e", "y", "s", "(", ")">>

\* AbstractTreePath(...): a new object.
ConstructOverFirst(h, obj) == [h EXCEPT ![1] = obj]
Construct(h, obj) == Append(h, obj)

\* A slice bound: None, or an int.
NoBound == [given |-> FALSE, i |-> 0]
Bound(i) == [given |-> TRUE, i |-> i]

\* slice.indices(n) for a step of 1: where the bound b falls in 0..n.
SliceIndex(b, n, default) ==
    IF ~b.given THEN default
    ELSE IF b.i < 0 THEN (IF n + b.i < 0 THEN 0 ELSE n + b.i)
    ELSE IF b.i > n THEN n ELSE b.i

\* tuple.__getitem__(slice(start, stop))
tuple_getitem(t, start, stop) ==
    SubSeq(t, SliceIndex(start, Len(t), 0) + 1, SliceIndex(stop, Len(t), Len(t)))

\* AbstractTreePath.__getitem__(slice(start, stop))
getitem(p, start, stop) ==
    AbstractTreePath(tuple_getitem(p.path, start, stop), p.start_with_dot)

\* AbstractTreePath.extend(other)
extend(p, other) == AbstractTreePath(p.path \o other.path, p.start_with_dot)

\* AbstractTreePath.__add__(other)
add(p, other) == extend(p, other)

\* AbstractTreePath.go_up(n): self[:-n]
go_up(p, n) == getitem(p, NoBound, Bound(0 - n))

\* The dataclass __eq__: the tuples of the fields are compared.
path_eq(p, q) == <<p.path, p.start_with_dot>> = <<q.path, q.start_with_dot>>

\* The dataclass __hash__ (unsafe_hash=True): the hash of the tuple of the
\* fields, here the tuple itself.
path_hash(p) == <<p.path, p.start_with_dot>>

\* str.removeprefix(prefix)
DropFirstChar(str, prefix) == IF str = <<>> THEN str ELSE Tail(str)
removeprefix(str, prefix) ==
    IF Len(str) >= Len(prefix) /\ SubSeq(str, 1, Len(prefix)) = prefix
    THEN SubSeq(str, Len(prefix) + 1, Len(str)) ELSE str

\* The loop of repr_as_python_code: path_string after the items.
RECURSIVE path_string(_)
path_string(items) ==
    IF items = <<>> THEN <<>>
    ELSE (IF Head(items).seg = "ATPathAttribute"
          THEN <<".">> \o Chars(Head(items).value)
          ELSE <<"[">> \o Chars(Head(items).value) \o <<"]">>)
         \o path_string(Tail(items))

\* AbstractTreePath.repr_as_python_code()
repr_as_python_code(p) ==
    IF ~p.start_with_dot THEN removeprefix(path_string(p.path), <<".">>)
    ELSE path_string(p.path)

PathAttrs == {"user", "name"}
PathKeys == {"0", "'a'"}
PathSegments ==
    {ATPathAttribute(a) : a \in PathAttrs} \cup {ATPathIndexOrKey(k) : k \in PathKeys}

PathObjects ==
    {AbstractTreePath(segs, dot) : segs \in SeqsUpTo(PathSegments, MaxPathLen),
                                   dot \in BOOLEAN}

\* The paths passed as arguments.
OtherPaths ==
    {AbstractTreePath(<<>>, TRUE),
     AbstractTreePath(<<ATPathAttribute("name")>>, FALSE),
     AbstractTreePath(<<ATPathIndexOrKey("0"), ATPathAttribute("user")>>, TRUE)}

SliceBounds == {NoBound} \cup {Bound(i) : i \in (0 - MaxPathLen)..MaxPathLen}

NoOp == [name |-> "none"]

InitPath ==
    /\ pc = "call"
    /\ heap \in {<<p, q>> : p \in PathObjects, q \in OtherPaths}
    /\ op = NoOp /\ result = Idle
    /\ value = Idle /\ expected = Idle /\ path = Idle
    /\ self = Idle /\ calls = <<>>
    /\ root = Idle /\ included = {} /\ visited = Idle

\* An operation that returns a path it constructs: the call, and the object
\* returned.
Returns(call, obj) ==
    /\ pc = "call"
    /\ pc' = "done"
    /\ op' = call
    /\ heap' = Construct(heap, obj)
    /\ result' = [ret |-> Len(heap')]
    /\ UNCHANGED <<value, expected, path, self, calls, root, included, visited>>

\* An operation that returns a value and constructs no path.
Answers(call, answer) ==
    /\ pc = "call"
    /\ pc' = "done"
    /\ op' = call
    /\ result' = answer
    /\ UNCHANGED <<value, expected, path, self, calls, root, included, visited, heap>>

AddAttribute ==
    \E r \in DOMAIN heap, attr \in PathAttrs :
        Returns([name |-> "add_attribute", recv |-> r, attr |-> attr],
                add_attribute(heap[r], attr))

AddIndexOrKey ==
    \E r \in DOMAIN heap, k \in PathKeys :
        Returns([name |-> "add_index_or_key", recv |-> r, key |-> k],
                add_index_or_key(heap[r], k))

Extend ==
    \E r \in DOMAIN heap, o \in DOMAIN heap :
        Returns([name |-> "extend", recv |-> r, other |-> o], extend(heap[r], heap[o]))

Add ==
    \E r \in DOMAIN heap, o \in DOMAIN heap :
        Returns([name |-> "__add__", recv |-> r, other |-> o], add(heap[r], heap[o]))

GoUp ==
    \E r \in DOMAIN heap, n \in 0..(MaxPathLen + 1) :
        Returns([name |-> "go_up", recv |-> r, n |-> n], go_up(heap[r], n))

GetSlice ==
    \E r \in DOMAIN heap, start \in SliceBounds, stop \in SliceBounds :
        Returns([name |-> "__getitem__", recv |-> r, start |-> start, stop |-> stop],
                getitem(heap[r], start, stop))

ReprAsPythonCode ==
    \E r \in DOMAIN heap :
        Answers([name |-> "repr_as_python_code", recv |-> r],
                [ret |-> repr_as_python_code(heap[r])])

Compare ==
    \E r \in DOMAIN heap, o \in DOMAIN heap :
        Answers([name |-> "__eq__", recv |-> r, other |-> o],
                [ret |-> path_eq(heap[r], heap[o]),
                 same_hash |-> path_hash(heap[r]) = path_hash(heap[o])])

\* A str, by its characters; a condition is a str or None.
Str(chars) == [kind |-> "str", chars |-> chars]
CharsOf(v) == IF v.kind = "str" THEN v.chars ELSE <<>>

\* For contrast: the message built with the condition before the path.
ConditionFirst(p, msg, condition) ==
    [error |-> "GU_PathValidationError", path |-> p, msg |-> msg,
     condition |-> condition,
     str |-> (IF condition # Atom("None")
              THEN CharsOf(condition) \o <<":", " ">> ELSE <<>>)
             \o (IF Len(p.path) > 0
                 THEN <<"A", "t", " ">> \o repr_as_python_code(p) \o <<":", " ">>
                 ELSE <<>>)
             \o CharsOf(msg)]

\* errors.GU_PathValidationError(path, msg, condition): the three
\* attributes, and the message given to Exception, which str() shows.
GU_PathValidationError(p, msg, condition) ==
    [error |-> "GU_PathValidationError", path |-> p, msg |-> msg,
     condition |-> condition,
     str |-> (IF Len(p.path) > 0
              THEN <<"A", "t", " ">> \o repr_as_python_code(p) \o <<":", " ">>
              ELSE <<>>)
             \o (IF condition # Atom("None")
                 THEN CharsOf(condition) \o <<":", " ">> ELSE <<>>)
             \o CharsOf(msg)]

Messages == {Str(<<"b", "a", "d">>), Str(<<>>)}
Conditions == {Atom("None"), Str(<<>>), Str(<<"i", "f">>)}

\* GU_PathValidationError(path, msg, condition)
NewPathValidationError ==
    \E r \in DOMAIN heap, msg \in Messages, condition \in Conditions :
        Answers([name |-> "GU_PathValidationError", recv |-> r,
                 msg |-> msg, condition |-> condition],
                GU_PathValidationError(heap[r], msg, condition))

NextPath ==
    \/ AddAttribute \/ AddIndexOrKey \/ Extend \/ Add \/ GoUp \/ GetSlice
    \/ ReprAsPythonCode \/ Compare \/ NewPathValidationError

SpecPath == InitPath /\ [][NextPath]_vars

----------------------------------------------------------------------------
(***************************************************************************)
(* Claims about the operations on paths                                    *)
(***************************************************************************)

\* C12 (as claimed): for every path p and every n >= 0, p.go_up(n) is the
\* path of the first max(len(p) - n, 0) segments of p.
C12_GoUpAsClaimed ==
    (pc = "done" /\ op.name = "go_up") =>
        LET p == heap[op.recv].path
            keep == IF Len(p) - op.n < 0 THEN 0 ELSE Len(p) - op.n
        IN  heap[result.ret].path = SubSeq(p, 1, keep)

\* C13 (as claimed): two paths are equal, and have equal hashes, exactly
\* when their segment sequences are equal; start_with_dot takes no part.
C13_EqualityAsClaimed ==
    (pc = "done" /\ op.name = "__eq__") =>
        LET same == heap[op.recv].path = heap[op.other].path
        IN  /\ result.ret <=> same
            /\ result.same_hash <=> same

\* The operations that return a path.
PathReturning ==
    {"add_attribute", "add_index_or_key", "extend", "__add__", "go_up", "__getitem__"}

\* C14: add_attribute, add_index_or_key, extend, +, go_up and slicing each
\* return a new path object and leave every path that existed before the
\* call, the receiver and a path argument among them, with the segments
\* and the start_with_dot it had; the returned path has the receiver's
\* start_with_dot.
C14_PathsImmutable ==
    [][op'.name \in PathReturning =>
          /\ \A id \in DOMAIN heap : id \in DOMAIN heap' /\ heap'[id] = heap[id]
          /\ result'.ret \in DOMAIN heap' \ DOMAIN heap
          /\ heap'[result'.ret].start_with_dot = heap[op'.recv].start_with_dot]_vars

\* A path was extended by a non-empty path with the other start_with_dot.
C14_Witness ==
    /\ pc = "done" /\ op.name = "extend"
    /\ Len(heap) = 3 /\ result.ret = 3
    /\ heap[op.other].path # <<>>
    /\ heap[op.other].start_with_dot # heap[op.recv].start_with_dot
    /\ heap[3].path = heap[op.recv].path \o heap[op.other].path

\* What a segment is rendered as.
Piece(item) ==
    IF item.seg = "ATPathAttribute" THEN <<".">> \o Chars(item.value)
    ELSE <<"[">> \o Chars(item.value) \o <<"]">>

\* C17: a path renders as the concatenation, in segment order, of ".name"
\* for an Attribute segment and "[repr(value)]" for an IndexOrKey segment;
\* when start_with_dot is false and that string begins with a dot, exactly
\* that one dot is removed; a string that begins otherwise is unchanged.
C17_Rendering ==
    (pc = "done" /\ op.name = "repr_as_python_code") =>
        LET p == heap[op.recv]
            full == Flatten([i \in DOMAIN p.path |-> Piece(p.path[i])])
        IN  IF ~p.start_with_dot /\ full # <<>> /\ Head(full) = "."
            THEN result.ret = Tail(full)
            ELSE result.ret = full

\* Path().add_attribute("user").add_index_or_key(0).add_attribute("name")
\* was rendered: ".user[0].name".
C17_Witness ==
    /\ pc = "done" /\ op.name = "repr_as_python_code"
    /\ heap[op.recv] = AbstractTreePath(<<ATPathAttribute("user"), ATPathIndexOrKey("0"),
                                          ATPathAttribute("name")>>, TRUE)
    /\ result.ret = <<".", "u", "s", "e", "r", "[", "0", "]", ".", "n", "a", "m", "e">>

----------------------------------------------------------------------------
(***************************************************************************)
(* base.AbstractTreePath: get_in_tree, exists_in_tree, set_in_tree         *)
(*                                                                         *)
(* An access returns [error |-> "none", ret |-> value] or raises: a record *)
(* whose error is the exception's class.                                   *)
(***************************************************************************)

Value(v) == [error |-> "none", ret |-> v]
Raises(cls) == [error |-> cls]

\* The int a key is, for the keys that are ints.
IntKeys == {"0", "1", "2", "-1"}
KeyInt(k) == CASE k = "0" -> 0 [] k = "1" -> 1 [] k = "2" -> 2 [] k = "-1" -> 0 - 1

\* Where the index i falls in a sequence of n items (1-based), 0 when it
\* falls outside.
SeqIndex(i, n) ==
    IF i >= 0 /\ i < n THEN i + 1
    ELSE IF i < 0 /\ n + i >= 0 THEN n + i + 1
    ELSE 0

\* getattr(obj, name)
GetAttr(obj, name) ==
    IF obj.kind = "object" /\ "fields" \in DOMAIN obj
       /\ \E i \in DOMAIN obj.fields : obj.fields[i][1] = name
    THEN Value(obj.fields[CHOOSE i \in DOMAIN obj.fields : obj.fields[i][1] = name][2])
    ELSE Raises("AttributeError")

\* obj[key]
GetItem(obj, key) ==
    CASE obj.kind \in {"list", "tuple"} ->
            IF key \notin IntKeys THEN Raises("TypeError")
            ELSE IF SeqIndex(KeyInt(key), Len(obj.items)) = 0 THEN Raises("IndexError")
            ELSE Value(obj.items[SeqIndex(KeyInt(key), Len(obj.items))])
      [] obj.kind = "dict" ->
            IF \E i \in DOMAIN obj.entries : obj.entries[i][1] = key
            THEN Value(obj.entries[CHOOSE i \in DOMAIN obj.entries : obj.entries[i][1] = key][2])
            ELSE Raises("KeyError")
      [] obj.kind = "atom" /\ ClassOf(obj) = "str" ->
            \* a str of one character
            IF key \notin IntKeys THEN Raises("TypeError")
            ELSE IF SeqIndex(KeyInt(key), 1) = 0 THEN Raises("IndexError")
            ELSE Value(obj)
      [] OTHER -> Raises("TypeError")

\* list(obj.keys())
KeyList(obj) == List([i \in DOMAIN obj.entries |-> Atom(obj.entries[i][1])])

\* One iteration of get_in_tree's loop: the object the item leads to from
\* current_object, or the error of the access.
GetStep(current_object, item) ==
    IF item.seg = "ATPathAttribute" THEN
        IF current_object.kind = "dict" /\ item.value = "keys()"
        THEN Value(KeyList(current_object))
        ELSE GetAttr(current_object, item.value)
    ELSE GetItem(current_object, item.value)

\* get_in_tree when the access for item i (0-based) raised cause: the
\* default is returned, or ValueError raised with the path self[:i].
AccessFailedNoDefault(p, i, cause, default) ==
    [error |-> "ValueError", cause |-> cause, item |-> p.path[i + 1],
     prefix |-> getitem(p, NoBound, Bound(i))]
AccessFailed(p, i, cause, default) ==
    IF default = NotSet
    THEN [error |-> "ValueError", cause |-> cause, item |-> p.path[i + 1],
          prefix |-> getitem(p, NoBound, Bound(i))]
    ELSE Value(default)

\* get_in_tree's loop from item i (0-based) on.
RECURSIVE get_in_tree_from(_, _, _, _)
get_in_tree_from(p, i, current_object, default) ==
    IF i = Len(p.path) THEN Value(current_object)
    ELSE LET step == GetStep(current_object, p.path[i + 1])
         IN  IF Ok(step) THEN get_in_tree_from(p, i + 1, step.ret, default)
             ELSE AccessFailed(p, i, step.error, default)

\* AbstractTreePath.get_in_tree(tree, default)
get_in_tree(p, tree, default) == get_in_tree_from(p, 0, tree, default)

\* AbstractTreePath.exists_in_tree(tree)
exists_in_tree(p, tree) ==
    LET got == get_in_tree(p, tree, NotSet)
    IN  IF Ok(got) THEN Value(TRUE)
        ELSE IF got.error = "ValueError" THEN Value(FALSE)
        ELSE got

\* seq with the element at index i replaced by v.
SeqWith(seq, i, v) == [seq EXCEPT ![i] = v]

\* entries with the value of name replaced by v, or the pair appended when
\* name is new.
EntriesWith(entries, name, v) ==
    IF \E i \in DOMAIN entries : entries[i][1] = name
    THEN [i \in DOMAIN entries |-> IF entries[i][1] = name THEN <<name, v>> ELSE entries[i]]
    ELSE Append(entries, <<name, v>>)

\* setattr(obj, name, v): the object afterwards, or the error.  The
\* instances in the trees here are those with fields.
SetAttr(obj, name, v) ==
    IF obj.kind = "object" /\ "fields" \in DOMAIN obj
    THEN Value([obj EXCEPT !.fields = EntriesWith(obj.fields, name, v)])
    ELSE Raises("AttributeError")

\* obj[key] = v: the object afterwards, or the error.
SetItem(obj, key, v) ==
    CASE obj.kind = "list" ->
            IF key \notin IntKeys THEN Raises("TypeError")
            ELSE IF SeqIndex(KeyInt(key), Len(obj.items)) = 0 THEN Raises("IndexError")
            ELSE Value([obj EXCEPT !.items =
                            SeqWith(obj.items, SeqIndex(KeyInt(key), Len(obj.items)), v)])
      [] obj.kind = "dict" -> Value([obj EXCEPT !.entries = EntriesWith(obj.entries, key, v)])
      [] OTHER -> Raises("TypeError")

\* The tree after the object that items lead to from node was changed in
\* place into new.  The list that "keys()" leads to from a dict is made
\* for the access, and a change to it changes no object of the tree.
RECURSIVE Replace(_, _, _)
Replace(node, items, new) ==
    IF items = <<>> THEN new
    ELSE LET item == Head(items)
             below(child) == Replace(child, Tail(items), new)
         IN  IF item.seg = "ATPathAttribute" THEN
                 IF node.kind = "dict" /\ item.value = "keys()" THEN node
                 ELSE [node EXCEPT !.fields =
                         EntriesWith(node.fields, item.value,
                                     below(GetAttr(node, item.value).ret))]
             ELSE CASE node.kind \in {"list", "tuple"} ->
                         [node EXCEPT !.items =
                             SeqWith(node.items, SeqIndex(KeyInt(item.value), Len(node.items)),
                                     below(GetItem(node, item.value).ret))]
                    [] node.kind = "dict" ->
                         [node EXCEPT !.entries =
                             EntriesWith(node.entries, item.value,
                                         below(GetItem(node, item.value).ret))]
                    [] OTHER -> node

\* raise type(error)(f"Failed to set ...") from error, for the classes the
\* except clause names; any other error passes as it is.
Reraise(error, caught) ==
    [error |-> error.error, cause |-> error.error, described |-> error.error \in caught]

\* AbstractTreePath.set_in_tree(tree, value): how the call ends, and the
\* tree afterwards.
set_in_tree(p, tree, v) ==
    LET obj == get_in_tree(getitem(p, NoBound, Bound(0 - 1)), tree, NotSet)
    IN  IF ~Ok(obj) THEN [outcome |-> obj, tree |-> tree]
        ELSE IF p.path = <<>> THEN [outcome |-> Raises("IndexError"), tree |-> tree]
        ELSE LET path_item == p.path[Len(p.path)]
                 set == IF path_item.seg = "ATPathAttribute"
                        THEN SetAttr(obj.ret, path_item.value, v)
                        ELSE SetItem(obj.ret, path_item.value, v)
                 caught == IF path_item.seg = "ATPathAttribute"
                           THEN {"AttributeError", "TypeError"}
                           ELSE {"IndexError", "TypeError"}
             IN  IF Ok(set)
                 THEN [outcome |-> Value(Atom("None")),
                       tree |-> Replace(tree, SubSeq(p.path, 1, Len(p.path) - 1), set.ret)]
                 ELSE [outcome |-> Reraise(set, caught), tree |-> tree]

\* The trees and paths of the calls.
TreeRoots ==
    {List(s) : s \in SeqsUpTo({Atom("0"), List(<<Atom("'a'")>>),
                               Dict(<<<<"'a'", Atom("0")>>>>)}, MaxLen)}
    \cup {Dict(<<<<"'a'", List(<<Atom("0"), Atom("'a'")>>)>>>>),
          Dict(<<<<"'a'", Dict(<<<<"0", Atom("0")>>>>)>>, <<"0", Atom("'a'")>>>>),
          List(<<DataNode("Record", Atom("0"), List(<<Atom("0")>>)), Atom("'a'")>>),
          DataNode("Record", Dict(<<<<"'a'", Atom("0")>>>>),
                   Tuple(<<List(<<Atom("0")>>), Atom("0")>>)),
          Tuple(<<Atom("0"), List(<<Atom("'a'")>>)>>),
          List(<<List(<<List(<<Atom("0")>>)>>)>>),
          Dict(<<>>), Atom("0"), Atom("'a'"), FrozenSet(<<Atom("0")>>)}

TreePathSegments ==
    {ATPathAttribute(a) : a \in {"x", "y", "keys()"}}
    \cup {ATPathIndexOrKey(k) : k \in {"0", "-1", "'a'"}}

TreePaths ==
    {AbstractTreePath(segs, dot) : segs \in SeqsUpTo(TreePathSegments, MaxPathLen),
                                   dot \in BOOLEAN}

\* The default argument of get_in_tree: NotSet when none is given.
Defaults == {NotSet, Atom("None"), Atom("1")}

\* The value argument of set_in_tree.
NewValues == {Atom("2"), List(<<Atom("2")>>)}

InitTree ==
    /\ pc = "call"
    /\ root \in TreeRoots
    /\ path \in TreePaths
    /\ op = NoOp /\ result = Idle
    /\ value = Idle /\ expected = Idle
    /\ self = Idle /\ calls = <<>>
    /\ included = {} /\ visited = Idle /\ heap = <<>>

GetInTree ==
    \E default \in Defaults :
        /\ pc = "call"
        /\ pc' = "done"
        /\ op' = [name |-> "get_in_tree", default |-> default]
        /\ result' = get_in_tree(path, root, default)
        /\ UNCHANGED <<value, expected, path, self, calls, root, included, visited, heap>>

ExistsInTree ==
    /\ pc = "call"
    /\ pc' = "done"
    /\ op' = [name |-> "exists_in_tree"]
    /\ result' = exists_in_tree(path, root)
    /\ UNCHANGED <<value, expected, path, self, calls, root, included, visited, heap>>

\* set_in_tree changes the tree in place: `value` keeps the tree as it was
\* before the call.
SetInTree ==
    \E v \in NewValues :
        /\ pc = "call"
        /\ pc' = "done"
        /\ op' = [name |-> "set_in_tree", value |-> v]
        /\ value' = root
        /\ root' = set_in_tree(path, root, v).tree
        /\ result' = set_in_tree(path, root, v).outcome
        /\ UNCHANGED <<expected, path, self, calls, included, visited, heap>>

NextTree == GetInTree \/ ExistsInTree \/ SetInTree

SpecTree == InitTree /\ [][NextTree]_vars

----------------------------------------------------------------------------
(***************************************************************************)
(* Claims about get_in_tree, exists_in_tree and set_in_tree                *)
(***************************************************************************)

\* The access a segment stands for: attribute access for an Attribute
\* segment, subscript for an IndexOrKey segment; with keysOfDict, an
\* Attribute segment "keys()" on a dict is the list of the dict's keys.
SegmentAccess(obj, item, keysOfDict) ==
    IF item.seg = "ATPathIndexOrKey" THEN GetItem(obj, item.value)
    ELSE IF keysOfDict /\ obj.kind = "dict" /\ item.value = "keys()" THEN Value(KeyList(obj))
    ELSE GetAttr(obj, item.value)

\* Following items from obj: how many leading items can be accessed, and
\* the value they lead to.
RECURSIVE Follow(_, _, _)
Follow(obj, items, keysOfDict) ==
    IF items = <<>> THEN [n |-> 0, at |-> obj]
    ELSE LET access == SegmentAccess(obj, Head(items), keysOfDict)
         IN  IF ~Ok(access) THEN [n |-> 0, at |-> obj]
             ELSE LET rest == Follow(access.ret, Tail(items), keysOfDict)
                  IN  [n |-> 1 + rest.n, at |-> rest.at]

\* What C15 says of the call that was made, for a reading of "access".
GetInTreeFollows(keysOfDict) ==
    LET walk == Follow(root, path.path, keysOfDict)
        reaches == walk.n = Len(path.path)
    IN  /\ (pc = "done" /\ op.name = "get_in_tree") =>
              IF reaches THEN result = Value(walk.at)
              ELSE IF op.default # NotSet THEN result = Value(op.default)
              ELSE /\ result.error = "ValueError"
                   /\ result.prefix = AbstractTreePath(SubSeq(path.path, 1, walk.n),
                                                       path.start_with_dot)
        /\ (pc = "done" /\ op.name = "exists_in_tree") => result = Value(reaches)

\* C15, amended: p.get_in_tree(root, default) follows p's segments in
\* order from root, by attribute access for an Attribute segment, except
\* that "keys()" on a dict leads to the list of the dict's keys, and by
\* subscript for an IndexOrKey segment, and returns the value reached; if
\* the access for segment i fails it returns the default when one was
\* given and otherwise raises a ValueError that names the prefix p[:i];
\* p.exists_in_tree(root) returns true exactly when every access succeeds,
\* and never raises.
C15_GetInTree == GetInTreeFollows(TRUE)

\* C15 (as claimed): the same with every Attribute segment followed by
\* attribute access.
C15_GetInTreeAsClaimed == GetInTreeFollows(FALSE)

\* A call without default failed at a segment after the first, with more
\* segments left: the error names the prefix consumed.
C15_Witness ==
    /\ pc = "done" /\ op.name = "get_in_tree" /\ op.default = NotSet
    /\ result.error = "ValueError"
    /\ Len(result.prefix.path) >= 1
    /\ Len(result.prefix.path) + 1 < Len(path.path)

\* The segments of the location that items address from obj: an index
\* counted from the end is written from the start.
RECURSIVE Location(_, _)
Location(obj, items) ==
    IF items = <<>> THEN <<>>
    ELSE LET item == Head(items)
             access == GetStep(obj, item)
             at == IF /\ item.seg = "ATPathIndexOrKey" /\ item.value \in IntKeys
                      /\ obj.kind \in {"list", "tuple"}
                      /\ SeqIndex(KeyInt(item.value), Len(obj.items)) # 0
                   THEN ATPathIndexOrKey(IntRepr(SeqIndex(KeyInt(item.value),
                                                          Len(obj.items)) - 1))
                   ELSE item
         IN  <<at>> \o (IF Ok(access) THEN Location(access.ret, Tail(items)) ELSE Tail(items))

\* The paths that address, from the start, a location apart from the one
\* that items address: neither inside it nor around it.
ApartFrom(tree, items) ==
    {q \in TreePaths :
        /\ \A i \in DOMAIN q.path : q.path[i].value \notin {"keys()", "-1"}
        /\ ~IsPrefix(q.path, Location(tree, items))
        /\ ~IsPrefix(Location(tree, items), q.path)}

\* C16 (as claimed): for a non-empty path p, when p.set_in_tree(root, v)
\* succeeds, p.get_in_tree(root) afterwards returns v and every other
\* location of the tree holds what it held; when it fails, the error is of
\* the kind of the access failure that underlies it and the tree is as it
\* was.
C16_SetInTreeAsClaimed ==
    (pc = "done" /\ op.name = "set_in_tree" /\ path.path # <<>>) =>
        IF Ok(result)
        THEN /\ get_in_tree(path, root, NotSet) = Value(op.value)
             /\ \A q \in ApartFrom(value, path.path) :
                   get_in_tree(q, root, NotSet) = get_in_tree(q, value, NotSet)
        ELSE /\ root = value
             /\ result.error = result.cause


(***************************************************************************)
(* dual_key_dict.DualKeyDict                                               *)
(*                                                                         *)
(* A DualKeyDict holds three dicts: _values (key1 -> value), _k2_to_k1     *)
(* and _k1_to_k2.  A dict is an object of the heap, a sequence of          *)
(* <<key, value>> entries in insertion order, and a DualKeyDict names its  *)
(* three dicts by their places in the heap, so that two DualKeyDicts can   *)
(* share a dict or not.  A method returns [outcome, heap]: how the call    *)
(* ended and the heap after it.                                            *)
(***************************************************************************)

MaxEntries == 2

Dkd(r1, r2, r3) ==
    [kind |-> "object", cls |-> "DualKeyDict",
     values |-> r1, k2_to_k1 |-> r2, k1_to_k2 |-> r3]

\* key in d, and d[key] for a key in d.
DictHas(d, key) == \E i \in DOMAIN d : d[i][1] = key
DictGet(d, key) == d[CHOOSE i \in DOMAIN d : d[i][1] = key][2]

\* has_key1, has_key2: membership in _values, in _k2_to_k1.
has_key1(h, d, key1) == DictHas(h[d.values], key1)
has_key2(h, d, key2) == DictHas(h[d.k2_to_k1], key2)

\* get_key1_for_key2, get_key2_for_key1: the partner key, or KeyError.
get_key1_for_key2(h, d, key2) ==
    IF DictHas(h[d.k2_to_k1], key2)
    THEN Value(DictGet(h[d.k2_to_k1], key2))
    ELSE Raises("KeyError")

get_key2_for_key1(h, d, key1) ==
    IF DictHas(h[d.k1_to_k2], key1)
    THEN Value(DictGet(h[d.k1_to_k2], key1))
    ELSE Raises("KeyError")

\* get_by_key1: _values[key1], or KeyError.
get_by_key1(h, d, key1) ==
    IF DictHas(h[d.values], key1)
    THEN Value(DictGet(h[d.values], key1))
    ELSE Raises("KeyError")

\* get_by_key2: key1 is looked up first and its KeyError is let through;
\* then _values[key1].
get_by_key2(h, d, key2) ==
    LET key1 == get_key1_for_key2(h, d, key2)
    IN  IF key1.error # "none" THEN key1
        ELSE IF DictHas(h[d.values], key1.ret)
        THEN Value(DictGet(h[d.values], key1.ret))
        ELSE Raises("KeyError")

\* __len__: the length of _values.
dkd_len(h, d) == Len(h[d.values])

\* items_key1_key2: for each (key1, key2) of _k1_to_k2, in its order,
\* (key1, key2, get_by_key1(key1)).
items_key1_key2(h, d) ==
    [i \in DOMAIN h[d.k1_to_k2] |->
        <<h[d.k1_to_k2][i][1], h[d.k1_to_k2][i][2],
          get_by_key1(h, d, h[d.k1_to_k2][i][1]).ret>>]

\* For contrast: an entry stored with key2 taken out of _k2_to_k1 and put
\* at its end.
StoreKey2Last(h, d, key1, key2, v) ==
    [h EXCEPT ![d.values]   = EntriesWith(@, key1, v),
              ![d.k2_to_k1] = Append(SelectSeq(@, LAMBDA e : e[1] # key2), <<key2, key1>>),
              ![d.k1_to_k2] = EntriesWith(@, key1, key2)]

\* The three assignments that store an entry: an assignment to a key of the
\* dict keeps the key's place, a new key comes last.
Store(h, d, key1, key2, v) ==
    [h EXCEPT ![d.values]   = EntriesWith(@, key1, v),
              ![d.k2_to_k1] = EntriesWith(@, key2, key1),
              ![d.k1_to_k2] = EntriesWith(@, key1, key2)]

\* For contrast: set without its third test, the one for two keys that
\* are both present.
set_two_tests(h, d, key1, key2, v) ==
    LET has1 == has_key1(h, d, key1)
        has2 == has_key2(h, d, key2)
    IN  IF has1 /\ ~has2 THEN [outcome |-> Raises("ValueError"), heap |-> h]
        ELSE IF has2 /\ ~has1 THEN [outcome |-> Raises("ValueError"), heap |-> h]
        ELSE [outcome |-> Value(Atom("None")), heap |-> Store(h, d, key1, key2, v)]

\* set(key1, key2, value): ValueError when key1 is there and key2 is not,
\* when key2 is there and key1 is not, and when key1 is there with another
\* key2 (an error of that lookup leaves the method); otherwise the entry is
\* stored.
set(h, d, key1, key2, v) ==
    LET has1 == has_key1(h, d, key1)
        has2 == has_key2(h, d, key2)
    IN  IF has1 /\ ~has2 THEN [outcome |-> Raises("ValueError"), heap |-> h]
        ELSE IF has2 /\ ~has1 THEN [outcome |-> Raises("ValueError"), heap |-> h]
        ELSE IF has1 /\ get_key2_for_key1(h, d, key1).error # "none"
        THEN [outcome |-> get_key2_for_key1(h, d, key1), heap |-> h]
        ELSE IF has1 /\ get_key2_for_key1(h, d, key1).ret # key2
        THEN [outcome |-> Raises("ValueError"), heap |-> h]
        ELSE [outcome |-> Value(Atom("None")), heap |-> Store(h, d, key1, key2, v)]

\* __ior__(value) from the i-th item of value on: the tests of set, but the
\* third one asks for key1's partner without asking whether key1 is there,
\* and the KeyError of that lookup leaves the method.  An item that passes
\* is stored before the next one is looked at.  The method has no return
\* statement: when the loop ends it returns None.
RECURSIVE ior_from(_, _, _, _)
ior_from(h, d, items, i) ==
    IF i > Len(items) THEN [outcome |-> Value(Atom("None")), heap |-> h]
    ELSE
    LET key1 == items[i][1]
        key2 == items[i][2]
        has1 == has_key1(h, d, key1)
        has2 == has_key2(h, d, key2)
        real == get_key2_for_key1(h, d, key1)
    IN  IF has1 /\ ~has2 THEN [outcome |-> Raises("ValueError"), heap |-> h]
        ELSE IF has2 /\ ~has1 THEN [outcome |-> Raises("ValueError"), heap |-> h]
        ELSE IF real.error # "none" THEN [outcome |-> real, heap |-> h]
        ELSE IF real.ret # key2 THEN [outcome |-> Raises("ValueError"), heap |-> h]
        ELSE ior_from(Store(h, d, key1, key2, items[i][3]), d, items, i + 1)

ior(h, d, other) == ior_from(h, d, items_key1_key2(h, other), 1)

\* update(value): what __ior__(value) returns.
update(h, d, other) == ior(h, d, other)

\* __copy__: a new DualKeyDict whose three dicts are copies.
copy(h, d) ==
    [heap |-> h \o <<h[d.values], h[d.k2_to_k1], h[d.k1_to_k2]>>,
     obj  |-> Dkd(Len(h) + 1, Len(h) + 2, Len(h) + 3)]

\* __or__(value), __ror__(value): what __ior__(value) returns on a copy of
\* self.
dkd_or(h, d, other) == ior(copy(h, d).heap, copy(h, d).obj, other)
dkd_ror(h, d, other) == ior(copy(h, d).heap, copy(h, d).obj, other)

\* DualKeyDict(iterable): three empty dicts, then set for each item of the
\* iterable in its order; an error of set leaves the constructor.
RECURSIVE init_from(_, _, _, _)
init_from(h, d, iterable, i) ==
    IF i > Len(iterable) THEN [outcome |-> Value(d), heap |-> h]
    ELSE
    LET r == set(h, d, iterable[i][1][1], iterable[i][1][2], iterable[i][2])
    IN  IF r.outcome.error # "none" THEN r
        ELSE init_from(r.heap, d, iterable, i + 1)

DualKeyDict(h, iterable) ==
    init_from(h \o <<<<>>, <<>>, <<>>>>, Dkd(Len(h) + 1, Len(h) + 2, Len(h) + 3),
              iterable, 1)

(***************************************************************************)
(* Calls on DualKeyDicts.  self and value are two DualKeyDicts, each built *)
(* by the constructor from a dict of at most MaxEntries items; expected    *)
(* keeps the heap of before the call.                                      *)
(***************************************************************************)

Keys1 == {"'a'", "'b'"}
Keys2 == {"'x'", "'y'", "'z'"}
DkdValues == {Atom("0"), Atom("True")}

\* The dicts {(key1, key2): value} of at most MaxEntries items: their keys
\* are distinct.
Iterables ==
    {it \in UNION {[1..n -> (Keys1 \X Keys2) \X DkdValues] : n \in 0..MaxEntries} :
        \A i, j \in DOMAIN it : i # j => it[i][1] # it[j][1]}

InitDkd ==
    /\ pc = "call"
    /\ op = NoOp /\ result = Idle
    /\ \E ia \in Iterables :
         LET a == DualKeyDict(<<>>, ia)
         IN  /\ a.outcome.error = "none"
             /\ self = a.outcome.ret
             /\ \E ib \in Iterables :
                  LET b == DualKeyDict(a.heap, ib)
                  IN  /\ b.outcome.error = "none"
                      /\ value = b.outcome.ret
                      /\ heap = b.heap
                      /\ expected = b.heap
    /\ path = <<>> /\ calls = <<>>
    /\ root = Idle /\ included = {} /\ visited = Idle

\* self.set(key1, key2, v)
SetEntry ==
    \E key1 \in Keys1, key2 \in Keys2, v \in DkdValues :
        /\ pc = "call"
        /\ pc' = "done"
        /\ op' = [name |-> "set", key1 |-> key1, key2 |-> key2, value |-> v]
        /\ result' = set(heap, self, key1, key2, v).outcome
        /\ heap' = set(heap, self, key1, key2, v).heap
        /\ UNCHANGED <<value, expected, path, self, calls, root, included, visited>>

\* self.update(value)
Update ==
    /\ pc = "call"
    /\ pc' = "done"
    /\ op' = [name |-> "update"]
    /\ result' = update(heap, self, value).outcome
    /\ heap' = update(heap, self, value).heap
    /\ UNCHANGED <<value, expected, path, self, calls, root, included, visited>>

\* self |= value: the name on the left is bound to what __ior__ returns,
\* which is result; self stays the receiver of the call.
Ior ==
    /\ pc = "call"
    /\ pc' = "done"
    /\ op' = [name |-> "ior"]
    /\ result' = ior(heap, self, value).outcome
    /\ heap' = ior(heap, self, value).heap
    /\ UNCHANGED <<value, expected, path, self, calls, root, included, visited>>

\* self | value
Or ==
    /\ pc = "call"
    /\ pc' = "done"
    /\ op' = [name |-> "or"]
    /\ result' = dkd_or(heap, self, value).outcome
    /\ heap' = dkd_or(heap, self, value).heap
    /\ UNCHANGED <<value, expected, path, self, calls, root, included, visited>>

\* self.__ror__(value)
Ror ==
    /\ pc = "call"
    /\ pc' = "done"
    /\ op' = [name |-> "ror"]
    /\ result' = dkd_ror(heap, self, value).outcome
    /\ heap' = dkd_ror(heap, self, value).heap
    /\ UNCHANGED <<value, expected, path, self, calls, root, included, visited>>

NextDkd == SetEntry \/ Update \/ Ior \/ Or \/ Ror

SpecDkd == InitDkd /\ [][NextDkd]_vars


\* The three dicts of a DualKeyDict in a heap.
DictsOf(h, d) == <<h[d.values], h[d.k2_to_k1], h[d.k1_to_k2]>>

\* In heap h, key1 and key2 are both absent from d; they are paired with
\* each other; one of them is paired with another key.
BothAbsent(h, d, key1, key2) == ~has_key1(h, d, key1) /\ ~has_key2(h, d, key2)

Paired(h, d, key1, key2) ==
    /\ has_key1(h, d, key1) /\ get_key2_for_key1(h, d, key1) = Value(key2)
    /\ has_key2(h, d, key2) /\ get_key1_for_key2(h, d, key2) = Value(key1)

PairedDifferently(h, d, key1, key2) ==
    \/ has_key1(h, d, key1) /\ get_key2_for_key1(h, d, key1) # Value(key2)
    \/ has_key2(h, d, key2) /\ get_key1_for_key2(h, d, key2) # Value(key1)

\* C18: set(key1, key2, value) succeeds when both keys are absent or are
\* paired with each other, and then get_by_key1(key1) and get_by_key2(key2)
\* both return value, an overwritten pair leaving len unchanged; it raises
\* ValueError when key1 or key2 is present with another partner, also when
\* both are present in different entries, and then the three dicts are as
\* before the call.
C18_Set ==
    (pc = "done" /\ op.name = "set") =>
        /\ (BothAbsent(expected, self, op.key1, op.key2)
              \/ Paired(expected, self, op.key1, op.key2)) =>
            /\ result.error = "none"
            /\ get_by_key1(heap, self, op.key1) = Value(op.value)
            /\ get_by_key2(heap, self, op.key2) = Value(op.value)
        /\ Paired(expected, self, op.key1, op.key2) =>
            dkd_len(heap, self) = dkd_len(expected, self)
        /\ PairedDifferently(expected, self, op.key1, op.key2) =>
            /\ result.error = "ValueError"
            /\ DictsOf(heap, self) = DictsOf(expected, self)

\* A set whose two keys are both present, in different entries.
C18_Witness ==
    /\ pc = "done" /\ op.name = "set"
    /\ has_key1(expected, self, op.key1)
    /\ has_key2(expected, self, op.key2)
    /\ ~Paired(expected, self, op.key1, op.key2)
    /\ result.error = "ValueError"


\* The (key1, key2, value) entries of a DualKeyDict in a heap.
EntriesOf(h, d) == {items_key1_key2(h, d)[i] : i \in DOMAIN items_key1_key2(h, d)}

\* (key1, key2, v) is an entry of d in heap h.
HasEntry(h, d, item) ==
    /\ Paired(h, d, item[1], item[2])
    /\ get_by_key1(h, d, item[1]) = Value(item[3])
    /\ get_by_key2(h, d, item[2]) = Value(item[3])

\* No entry of other conflicts with d: each of its pairs is paired in d in
\* the same way or has both keys absent from d.
NoConflict(h, d, other) ==
    \A item \in EntriesOf(h, other) :
        Paired(h, d, item[1], item[2]) \/ BothAbsent(h, d, item[1], item[2])

\* The entries of d that other does not name.
NotNamedBy(h, d, other) ==
    {item \in EntriesOf(h, d) :
        \A o \in EntriesOf(h, other) : o[1] # item[1] /\ o[2] # item[2]}

\* C19 (as claimed): update(other) and self |= other complete without error
\* whenever no entry of other conflicts with self, and then every entry of
\* other is in self with other's value and the entries of self that other
\* does not name are retained; when a key of other is paired differently in
\* self, ValueError is raised.
C19_UpdateAsClaimed ==
    (pc = "done" /\ op.name \in {"update", "ior"}) =>
        IF NoConflict(expected, self, value)
        THEN /\ result.error = "none"
             /\ \A item \in EntriesOf(expected, value) : HasEntry(heap, self, item)
             /\ NotNamedBy(expected, self, value) \subseteq EntriesOf(heap, self)
        ELSE result.error = "ValueError"

\* C20 (as claimed): for non-conflicting a and b, a | b and __ror__ return a
\* new DualKeyDict that holds the merged entries of both, and __ior__ and
\* update return the merged receiver, a DualKeyDict and never None; a | b
\* leaves a and b unchanged, also when it raises.
C20_OrAsClaimed ==
    /\ (pc = "done" /\ op.name \in {"or", "ror"}) =>
        /\ NoConflict(expected, self, value) =>
            /\ result.error = "none"
            /\ result.ret.kind = "object"
            /\ result.ret.cls = "DualKeyDict"
            /\ {result.ret.values, result.ret.k2_to_k1, result.ret.k1_to_k2}
                 \cap {self.values, self.k2_to_k1, self.k1_to_k2,
                       value.values, value.k2_to_k1, value.k1_to_k2} = {}
            /\ EntriesOf(heap, result.ret)
                 = EntriesOf(expected, value) \cup NotNamedBy(expected, self, value)
        /\ DictsOf(heap, self) = DictsOf(expected, self)
        /\ DictsOf(heap, value) = DictsOf(expected, value)
    /\ (pc = "done" /\ op.name \in {"update", "ior"}) =>
        (NoConflict(expected, self, value) => result = Value(self))

\* C28 (as claimed): when update(other) or self |= other raises because of a
\* key conflict, the three dicts of self are as before the call.
C28_FailedUpdateAsClaimed ==
    (pc = "done" /\ op.name \in {"update", "ior"} /\ result.error = "ValueError") =>
        DictsOf(heap, self) = DictsOf(expected, self)

(***************************************************************************)
(* dual_key_dict.DualKeyDict: the other methods                            *)
(***************************************************************************)

\* d.pop(key) for a key in d: d without the entry, the others in their order.
DictPop(d, key) == SelectSeq(d, LAMBDA e : e[1] # key)

\* update_by_key1, update_by_key2: KeyError for an absent key, otherwise
\* _values[key1] is assigned.
update_by_key1(h, d, key1, v) ==
    IF ~has_key1(h, d, key1) THEN [outcome |-> Raises("KeyError"), heap |-> h]
    ELSE [outcome |-> Value(Atom("None")),
          heap |-> [h EXCEPT ![d.values] = EntriesWith(@, key1, v)]]

update_by_key2(h, d, key2, v) ==
    IF ~has_key2(h, d, key2) THEN [outcome |-> Raises("KeyError"), heap |-> h]
    ELSE LET key1 == get_key1_for_key2(h, d, key2)
         IN  IF key1.error # "none" THEN [outcome |-> key1, heap |-> h]
             ELSE [outcome |-> Value(Atom("None")),
                   heap |-> [h EXCEPT ![d.values] = EntriesWith(@, key1.ret, v)]]

\* get_by_key1_with_default, get_by_key2_with_default: the default in place
\* of a KeyError.
get_by_key1_with_default(h, d, key1, default) ==
    IF get_by_key1(h, d, key1).error = "KeyError" THEN Value(default)
    ELSE get_by_key1(h, d, key1)

get_by_key2_with_default(h, d, key2, default) ==
    IF get_by_key2(h, d, key2).error = "KeyError" THEN Value(default)
    ELSE get_by_key2(h, d, key2)

\* For contrast: pop_by_key1 that leaves key2 in _k2_to_k1.
pop_by_key1_one_side(h, d, key1) ==
    IF ~DictHas(h[d.k1_to_k2], key1) THEN [outcome |-> Raises("KeyError"), heap |-> h]
    ELSE [outcome |-> Value(DictGet(h[d.values], key1)),
          heap |-> [h EXCEPT ![d.k1_to_k2] = DictPop(@, key1),
                             ![d.values] = DictPop(@, key1)]]

\* pop_by_key1: key2 is popped from _k1_to_k2 (KeyError when key1 is not
\* there), then key2 from _k2_to_k1, then the value from _values; a pop of
\* a key that is not there raises KeyError after the pops before it.
pop_by_key1(h, d, key1) ==
    IF ~DictHas(h[d.k1_to_k2], key1) THEN [outcome |-> Raises("KeyError"), heap |-> h]
    ELSE
    LET key2 == DictGet(h[d.k1_to_k2], key1)
        h1 == [h EXCEPT ![d.k1_to_k2] = DictPop(@, key1)]
        h2 == [h1 EXCEPT ![d.k2_to_k1] = DictPop(@, key2)]
    IN  IF ~DictHas(h1[d.k2_to_k1], key2) THEN [outcome |-> Raises("KeyError"), heap |-> h1]
        ELSE IF ~DictHas(h2[d.values], key1) THEN [outcome |-> Raises("KeyError"), heap |-> h2]
        ELSE [outcome |-> Value(DictGet(h2[d.values], key1)),
              heap |-> [h2 EXCEPT ![d.values] = DictPop(@, key1)]]

\* pop_by_key2: the same from key2.
pop_by_key2(h, d, key2) ==
    IF ~DictHas(h[d.k2_to_k1], key2) THEN [outcome |-> Raises("KeyError"), heap |-> h]
    ELSE
    LET key1 == DictGet(h[d.k2_to_k1], key2)
        h1 == [h EXCEPT ![d.k2_to_k1] = DictPop(@, key2)]
        h2 == [h1 EXCEPT ![d.k1_to_k2] = DictPop(@, key1)]
    IN  IF ~DictHas(h1[d.k1_to_k2], key1) THEN [outcome |-> Raises("KeyError"), heap |-> h1]
        ELSE IF ~DictHas(h2[d.values], key1) THEN [outcome |-> Raises("KeyError"), heap |-> h2]
        ELSE [outcome |-> Value(DictGet(h2[d.values], key1)),
              heap |-> [h2 EXCEPT ![d.values] = DictPop(@, key1)]]

\* The result r of a call, for a caller that drops the value and returns None.
ReturnsNone(r) ==
    IF r.outcome.error # "none" THEN r
    ELSE [outcome |-> Value(Atom("None")), heap |-> r.heap]

\* delete_by_key1, delete_by_key2: the pop, its value dropped.
delete_by_key1(h, d, key1) == ReturnsNone(pop_by_key1(h, d, key1))
delete_by_key2(h, d, key2) == ReturnsNone(pop_by_key2(h, d, key2))

\* pop_by_key1_with_default, pop_by_key2_with_default: the default in place
\* of a KeyError of the pop.
pop_by_key1_with_default(h, d, key1, default) ==
    IF pop_by_key1(h, d, key1).outcome.error = "KeyError"
    THEN [outcome |-> Value(default), heap |-> pop_by_key1(h, d, key1).heap]
    ELSE pop_by_key1(h, d, key1)

pop_by_key2_with_default(h, d, key2, default) ==
    IF pop_by_key2(h, d, key2).outcome.error = "KeyError"
    THEN [outcome |-> Value(default), heap |-> pop_by_key2(h, d, key2).heap]
    ELSE pop_by_key2(h, d, key2)

\* The end of the four change_ methods: the popped value is set under the
\* new keys.
SetPopped(popped, d, key1, key2) ==
    IF popped.outcome.error # "none" THEN popped
    ELSE set(popped.heap, d, key1, key2, popped.outcome.ret)

\* change_key1_by_key2: KeyError when key2 is absent, ValueError when
\* new_key1 is present; otherwise pop_by_key2(key2) and set(new_key1, key2).
change_key1_by_key2(h, d, key2, new_key1) ==
    IF ~has_key2(h, d, key2) THEN [outcome |-> Raises("KeyError"), heap |-> h]
    ELSE IF has_key1(h, d, new_key1) THEN [outcome |-> Raises("ValueError"), heap |-> h]
    ELSE SetPopped(pop_by_key2(h, d, key2), d, new_key1, key2)

\* change_key2_by_key1: KeyError when key1 is absent, ValueError when
\* new_key2 is present; otherwise pop_by_key1(key1) and set(key1, new_key2).
change_key2_by_key1(h, d, key1, new_key2) ==
    IF ~has_key1(h, d, key1) THEN [outcome |-> Raises("KeyError"), heap |-> h]
    ELSE IF has_key2(h, d, new_key2) THEN [outcome |-> Raises("ValueError"), heap |-> h]
    ELSE SetPopped(pop_by_key1(h, d, key1), d, key1, new_key2)

\* change_key1_key2_by_key1, change_key1_key2_by_key2: KeyError when the
\* old key is absent, ValueError when new_key1 is present or new_key2 is
\* present; otherwise the pop and set(new_key1, new_key2).
change_key1_key2_by_key1(h, d, old_key1, new_key1, new_key2) ==
    IF ~has_key1(h, d, old_key1) THEN [outcome |-> Raises("KeyError"), heap |-> h]
    ELSE IF has_key1(h, d, new_key1) THEN [outcome |-> Raises("ValueError"), heap |-> h]
    ELSE IF has_key2(h, d, new_key2) THEN [outcome |-> Raises("ValueError"), heap |-> h]
    ELSE SetPopped(pop_by_key1(h, d, old_key1), d, new_key1, new_key2)

change_key1_key2_by_key2(h, d, old_key2, new_key1, new_key2) ==
    IF ~has_key2(h, d, old_key2) THEN [outcome |-> Raises("KeyError"), heap |-> h]
    ELSE IF has_key1(h, d, new_key1) THEN [outcome |-> Raises("ValueError"), heap |-> h]
    ELSE IF has_key2(h, d, new_key2) THEN [outcome |-> Raises("ValueError"), heap |-> h]
    ELSE SetPopped(pop_by_key2(h, d, old_key2), d, new_key1, new_key2)

\* For contrast: clear that binds only _values to a new dict.
clear_values_only(h, d) ==
    [heap |-> h \o <<<<>>>>,
     obj  |-> Dkd(Len(h) + 1, d.k2_to_k1, d.k1_to_k2)]

\* clear: the three attributes are bound to new empty dicts.
clear(h, d) ==
    [heap |-> h \o <<<<>>, <<>>, <<>>>>,
     obj  |-> Dkd(Len(h) + 1, Len(h) + 2, Len(h) + 3)]

\* keys_key1 iterates _values, keys_key2 and keys_key2_key1 iterate
\* _k2_to_k1, keys_key1_key2 iterates _k1_to_k2.
keys_key1(h, d) == [i \in DOMAIN h[d.values] |-> h[d.values][i][1]]
keys_key2(h, d) == [i \in DOMAIN h[d.k2_to_k1] |-> h[d.k2_to_k1][i][1]]
keys_key1_key2(h, d) == h[d.k1_to_k2]
keys_key2_key1(h, d) == h[d.k2_to_k1]

\* items_key2: for each key2 of _k2_to_k1, (key2, get_by_key2(key2)).
items_key2(h, d) ==
    [i \in DOMAIN h[d.k2_to_k1] |->
        <<h[d.k2_to_k1][i][1], get_by_key2(h, d, h[d.k2_to_k1][i][1]).ret>>]

\* items_key2_key1: for each (key2, key1) of _k2_to_k1,
\* (key2, key1, get_by_key1(key1)).
items_key2_key1(h, d) ==
    [i \in DOMAIN h[d.k2_to_k1] |->
        <<h[d.k2_to_k1][i][1], h[d.k2_to_k1][i][2],
          get_by_key1(h, d, h[d.k2_to_k1][i][2]).ret>>]

(***************************************************************************)
(* Sequences of calls on one DualKeyDict.  self starts as DualKeyDict()    *)
(* and any method may be called after any other.  The heap holds the three *)
(* dicts of self: a dict that nothing refers to after a call (those of the *)
(* argument of update, those self had before clear, those of the original  *)
(* after self = self.copy()) is dropped.  op is the last call, result its  *)
(* outcome and expected the heap before it.  DualKeyDict(iterable) is      *)
(* DualKeyDict() followed by a set for each item, which is a sequence of   *)
(* calls here.                                                             *)
(***************************************************************************)

DkdDefault == Atom("None")

\* The three dicts of each DualKeyDict that the constructor builds from a
\* dict of at most MaxEntries items.
OtherDicts ==
    {DualKeyDict(<<>>, it).heap :
        it \in {i \in Iterables : DualKeyDict(<<>>, i).outcome.error = "none"}}

InitDkdOps ==
    /\ pc = "call"
    /\ op = NoOp /\ result = Idle
    /\ self = DualKeyDict(<<>>, <<>>).outcome.ret
    /\ heap = DualKeyDict(<<>>, <<>>).heap
    /\ expected = DualKeyDict(<<>>, <<>>).heap
    /\ value = Idle /\ path = <<>> /\ calls = <<>>
    /\ root = Idle /\ included = {} /\ visited = Idle

\* The call o on self ended as r.
DkdCall(o, r) ==
    /\ pc' = "done"
    /\ op' = o
    /\ result' = r.outcome
    /\ expected' = heap
    /\ heap' = r.heap
    /\ UNCHANGED <<value, path, self, calls, root, included, visited>>

SetByKeys ==
    \E key1 \in Keys1, key2 \in Keys2, v \in DkdValues :
        DkdCall([name |-> "set", key1 |-> key1, key2 |-> key2, value |-> v],
                set(heap, self, key1, key2, v))

UpdateByKey1 ==
    \E key1 \in Keys1, v \in DkdValues :
        DkdCall([name |-> "update_by_key1", key1 |-> key1, value |-> v],
                update_by_key1(heap, self, key1, v))

UpdateByKey2 ==
    \E key2 \in Keys2, v \in DkdValues :
        DkdCall([name |-> "update_by_key2", key2 |-> key2, value |-> v],
                update_by_key2(heap, self, key2, v))

\* self.update(other), other a DualKeyDict built by the constructor: its
\* three dicts come after those of self in the heap.
Merge ==
    \E o \in OtherDicts :
        LET other == Dkd(Len(heap) + 1, Len(heap) + 2, Len(heap) + 3)
            r == update(heap \o o, self, other)
        IN  DkdCall([name |-> "update", other |-> o],
                    [outcome |-> r.outcome, heap |-> DictsOf(r.heap, self)])

GetByKey1 ==
    \E key1 \in Keys1 :
        DkdCall([name |-> "get_by_key1", key1 |-> key1],
                [outcome |-> get_by_key1(heap, self, key1), heap |-> heap])

GetByKey2 ==
    \E key2 \in Keys2 :
        DkdCall([name |-> "get_by_key2", key2 |-> key2],
                [outcome |-> get_by_key2(heap, self, key2), heap |-> heap])

GetByKey1WithDefault ==
    \E key1 \in Keys1 :
        DkdCall([name |-> "get_by_key1_with_default", key1 |-> key1],
                [outcome |-> get_by_key1_with_default(heap, self, key1, DkdDefault),
                 heap |-> heap])

GetByKey2WithDefault ==
    \E key2 \in Keys2 :
        DkdCall([name |-> "get_by_key2_with_default", key2 |-> key2],
                [outcome |-> get_by_key2_with_default(heap, self, key2, DkdDefault),
                 heap |-> heap])

PopByKey1 ==
    \E key1 \in Keys1 :
        DkdCall([name |-> "pop_by_key1", key1 |-> key1], pop_by_key1(heap, self, key1))

PopByKey2 ==
    \E key2 \in Keys2 :
        DkdCall([name |-> "pop_by_key2", key2 |-> key2], pop_by_key2(heap, self, key2))

DeleteByKey1 ==
    \E key1 \in Keys1 :
        DkdCall([name |-> "delete_by_key1", key1 |-> key1], delete_by_key1(heap, self, key1))

DeleteByKey2 ==
    \E key2 \in Keys2 :
        DkdCall([name |-> "delete_by_key2", key2 |-> key2], delete_by_key2(heap, self, key2))

PopByKey1WithDefault ==
    \E key1 \in Keys1 :
        DkdCall([name |-> "pop_by_key1_with_default", key1 |-> key1],
                pop_by_key1_with_default(heap, self, key1, DkdDefault))

PopByKey2WithDefault ==
    \E key2 \in Keys2 :
        DkdCall([name |-> "pop_by_key2_with_default", key2 |-> key2],
                pop_by_key2_with_default(heap, self, key2, DkdDefault))

ChangeKey1ByKey2 ==
    \E key2 \in Keys2, new_key1 \in Keys1 :
        DkdCall([name |-> "change_key1_by_key2", key2 |-> key2, new_key1 |-> new_key1],
                change_key1_by_key2(heap, self, key2, new_key1))

ChangeKey2ByKey1 ==
    \E key1 \in Keys1, new_key2 \in Keys2 :
        DkdCall([name |-> "change_key2_by_key1", key1 |-> key1, new_key2 |-> new_key2],
                change_key2_by_key1(heap, self, key1, new_key2))

ChangeKey1Key2ByKey1 ==
    \E old_key1 \in Keys1, new_key1 \in Keys1, new_key2 \in Keys2 :
        DkdCall([name |-> "change_key1_key2_by_key1", key1 |-> old_key1,
                 new_key1 |-> new_key1, new_key2 |-> new_key2],
                change_key1_key2_by_key1(heap, self, old_key1, new_key1, new_key2))

ChangeKey1Key2ByKey2 ==
    \E old_key2 \in Keys2, new_key1 \in Keys1, new_key2 \in Keys2 :
        DkdCall([name |-> "change_key1_key2_by_key2", key2 |-> old_key2,
                 new_key1 |-> new_key1, new_key2 |-> new_key2],
                change_key1_key2_by_key2(heap, self, old_key2, new_key1, new_key2))

Clear ==
    DkdCall([name |-> "clear"],
            [outcome |-> Value(Atom("None")),
             heap |-> DictsOf(clear(heap, self).heap, clear(heap, self).obj)])

\* self = self.copy()
Copy ==
    DkdCall([name |-> "copy"],
            [outcome |-> Value(Atom("None")),
             heap |-> DictsOf(copy(heap, self).heap, copy(heap, self).obj)])

NextDkdOps ==
    \/ SetByKeys \/ UpdateByKey1 \/ UpdateByKey2 \/ Merge
    \/ GetByKey1 \/ GetByKey2 \/ GetByKey1WithDefault \/ GetByKey2WithDefault
    \/ PopByKey1 \/ PopByKey2 \/ DeleteByKey1 \/ DeleteByKey2
    \/ PopByKey1WithDefault \/ PopByKey2WithDefault
    \/ ChangeKey1ByKey2 \/ ChangeKey2ByKey1
    \/ ChangeKey1Key2ByKey1 \/ ChangeKey1Key2ByKey2
    \/ Clear \/ Copy

SpecDkdOps == InitDkdOps /\ [][NextDkdOps]_vars

\* The last call is one of the four change_ methods; it names its entry by
\* key2; that entry is present before the call; the entry's keys before the
\* call and the keys asked for.
IsChange ==
    op.name \in {"change_key1_by_key2", "change_key2_by_key1",
                 "change_key1_key2_by_key1", "change_key1_key2_by_key2"}

ChangeByKey2 == op.name \in {"change_key1_by_key2", "change_key1_key2_by_key2"}

OldPresent ==
    IF ChangeByKey2 THEN has_key2(expected, self, op.key2)
    ELSE has_key1(expected, self, op.key1)

OldKey1 == IF ChangeByKey2 THEN get_key1_for_key2(expected, self, op.key2).ret ELSE op.key1
OldKey2 == IF ChangeByKey2 THEN op.key2 ELSE get_key2_for_key1(expected, self, op.key1).ret
NewKey1 == IF op.name = "change_key2_by_key1" THEN op.key1 ELSE op.new_key1
NewKey2 == IF op.name = "change_key1_by_key2" THEN op.key2 ELSE op.new_key2

\* A new key is already paired otherwise: with a key other than the one it
\* is to be paired with, or in an entry other than the one that is changed.
\* (Asked only when that entry is present.)
NewKeyPairedDifferently ==
    \/ /\ op.name # "change_key2_by_key1"
       /\ has_key1(expected, self, NewKey1)
       /\ \/ get_key2_for_key1(expected, self, NewKey1) # Value(NewKey2)
          \/ NewKey1 # OldKey1
    \/ /\ op.name # "change_key1_by_key2"
       /\ has_key2(expected, self, NewKey2)
       /\ \/ get_key1_for_key2(expected, self, NewKey2) # Value(NewKey1)
          \/ NewKey2 # OldKey2

\* After a change that succeeded: the entry's previous value is under the
\* new keys, a key that was replaced is absent, len is as before.
Changed ==
    /\ get_by_key1(heap, self, NewKey1) = get_by_key1(expected, self, OldKey1)
    /\ get_by_key2(heap, self, NewKey2) = get_by_key1(expected, self, OldKey1)
    /\ NewKey1 # OldKey1 => ~has_key1(heap, self, OldKey1)
    /\ NewKey2 # OldKey2 => ~has_key2(heap, self, OldKey2)
    /\ dkd_len(heap, self) = dkd_len(expected, self)

\* C21 (as claimed): a change_ method raises KeyError exactly when the key
\* that names the entry is absent, raises ValueError exactly when a new key
\* is already paired with a different key, and otherwise succeeds with the
\* entry's previous value under the new keys, the replaced key absent and
\* len unchanged; on either error the three dicts are as before.
C21_ChangeAsClaimed ==
    (pc = "done" /\ IsChange) =>
        /\ result.error = "KeyError" <=> ~OldPresent
        /\ result.error = "ValueError" <=> (OldPresent /\ NewKeyPairedDifferently)
        /\ result.error = "none" => Changed
        /\ result.error # "none" => heap = expected

\* The calls that remove the entry of a key, those that return its value,
\* and the calls that need their key to be present or take a default.
Removers1 == {"pop_by_key1", "delete_by_key1", "pop_by_key1_with_default"}
Removers2 == {"pop_by_key2", "delete_by_key2", "pop_by_key2_with_default"}
Poppers == {"pop_by_key1", "pop_by_key2", "pop_by_key1_with_default", "pop_by_key2_with_default"}
Raisers1 == {"pop_by_key1", "delete_by_key1", "update_by_key1", "get_by_key1"}
Raisers2 == {"pop_by_key2", "delete_by_key2", "update_by_key2", "get_by_key2"}
Defaulters1 == {"pop_by_key1_with_default", "get_by_key1_with_default"}
Defaulters2 == {"pop_by_key2_with_default", "get_by_key2_with_default"}

\* The key of the last call was present before it, and the entry it names.
AddressedPresent ==
    IF op.name \in Removers1 \cup Raisers1 \cup Defaulters1
    THEN has_key1(expected, self, op.key1)
    ELSE has_key2(expected, self, op.key2)

AddressedKey1 ==
    IF op.name \in Removers1 \cup Raisers1 \cup Defaulters1
    THEN op.key1 ELSE get_key1_for_key2(expected, self, op.key2).ret

AddressedKey2 == get_key2_for_key1(expected, self, AddressedKey1).ret

AddressedValue == get_by_key1(expected, self, AddressedKey1).ret

\* C22: pop_by_key1/2, delete_by_key1/2 (and the pops with a default) on a
\* present key remove that entry under both of its keys: both keys are
\* absent afterwards, len is one less and the other entries are untouched
\* and in their order; a pop returns the entry's value.  pop_by_*,
\* delete_by_*, update_by_key1/2 and get_by_* on an absent key raise
\* KeyError, the _with_default variants return the default, and in these
\* cases no entry is added, removed or changed.
C22_RemoveAndAbsent ==
    (pc = "done" /\ op.name \in Removers1 \cup Removers2 \cup Raisers1 \cup Raisers2
                                  \cup Defaulters1 \cup Defaulters2) =>
        IF AddressedPresent
        THEN op.name \in Removers1 \cup Removers2 =>
               /\ ~has_key1(heap, self, AddressedKey1)
               /\ ~has_key2(heap, self, AddressedKey2)
               /\ dkd_len(heap, self) = dkd_len(expected, self) - 1
               /\ items_key1_key2(heap, self)
                    = SelectSeq(items_key1_key2(expected, self),
                                LAMBDA e : e[1] # AddressedKey1)
               /\ keys_key2(heap, self)
                    = SelectSeq(keys_key2(expected, self),
                                LAMBDA k : k # AddressedKey2)
               /\ op.name \in Poppers => result = Value(AddressedValue)
        ELSE /\ op.name \in Raisers1 \cup Raisers2 => result.error = "KeyError"
             /\ op.name \in Defaulters1 \cup Defaulters2 => result = Value(DkdDefault)
             /\ heap = expected

\* A pop by key1 of one of two entries.
C22_Witness ==
    /\ pc = "done" /\ op.name = "pop_by_key1"
    /\ dkd_len(expected, self) = 2
    /\ has_key1(expected, self, op.key1)
    /\ result.error = "none"
    /\ dkd_len(heap, self) = 1

\* The (key1, key2) pairs of self in heap h, in the order of items_key1_key2.
PairsOf(h) ==
    [i \in DOMAIN items_key1_key2(h, self) |->
        <<items_key1_key2(h, self)[i][1], items_key1_key2(h, self)[i][2]>>]

\* keys_key1, keys_key2, keys_key1_key2, keys_key2_key1, items_key2 and
\* items_key2_key1 enumerate the entries in the order of items_key1_key2.
SameOrder(h) ==
    LET items == items_key1_key2(h, self)
    IN  /\ keys_key1(h, self) = [i \in DOMAIN items |-> items[i][1]]
        /\ keys_key2(h, self) = [i \in DOMAIN items |-> items[i][2]]
        /\ keys_key1_key2(h, self) = [i \in DOMAIN items |-> <<items[i][1], items[i][2]>>]
        /\ keys_key2_key1(h, self) = [i \in DOMAIN items |-> <<items[i][2], items[i][1]>>]
        /\ items_key2(h, self) = [i \in DOMAIN items |-> <<items[i][2], items[i][3]>>]
        /\ items_key2_key1(h, self)
             = [i \in DOMAIN items |-> <<items[i][2], items[i][1], items[i][3]>>]

\* The last call kept the order of insertion: the pairs that are present
\* before and after it come first, in the order they had, and the pairs it
\* inserted come after them.
InsertionOrderKept ==
    LET before == PairsOf(expected)
        after == PairsOf(heap)
        stay == SelectSeq(before, LAMBDA p : \E i \in DOMAIN after : after[i] = p)
    IN  /\ Len(stay) <= Len(after)
        /\ SubSeq(after, 1, Len(stay)) = stay
        /\ \A i \in DOMAIN after : \A j \in DOMAIN after : after[i] = after[j] => i = j

\* C23: over any sequence of calls items_key1_key2 yields the present pairs
\* in the order of their insertion: a call that overwrites the value of a
\* pair keeps its place, a change_ call puts the entry at the end, and the
\* other enumerations follow the same order.
C23_InsertionOrder ==
    /\ InsertionOrderKept
    /\ SameOrder(heap)
    /\ (pc = "done" /\ IsChange /\ result.error = "none") =>
          PairsOf(heap)[Len(PairsOf(heap))] = <<NewKey1, NewKey2>>
    /\ (pc = "done" /\ op.name \in {"set", "update_by_key1", "update_by_key2", "update"}) =>
          \A i \in DOMAIN PairsOf(expected) :
              i \in DOMAIN PairsOf(heap) /\ PairsOf(heap)[i] = PairsOf(expected)[i]

\* A change_key2_by_key1 of the first of two entries, which is the second
\* afterwards.
C23_Witness ==
    /\ pc = "done" /\ op.name = "change_key2_by_key1" /\ result.error = "none"
    /\ Len(PairsOf(expected)) = 2
    /\ PairsOf(expected)[1][1] = op.key1
    /\ PairsOf(heap)[2] = <<op.key1, op.new_key2>>
    /\ PairsOf(heap)[1] = PairsOf(expected)[2]

\* The keys of a dict, as a set.
KeySet(d) == {d[i][1] : i \in DOMAIN d}

\* C27: after any sequence of calls, successful or failing, the pairing of
\* self is a bijection: _k1_to_k2 and _k2_to_k1 are inverses of each other,
\* the key1s with a value are the key1s of _k1_to_k2, and len is the number
\* of key1s and the number of key2s.
C27_Bijection ==
    LET values == heap[self.values]
        k2_to_k1 == heap[self.k2_to_k1]
        k1_to_k2 == heap[self.k1_to_k2]
    IN  /\ \A key1 \in KeySet(k1_to_k2) :
              /\ DictHas(k2_to_k1, DictGet(k1_to_k2, key1))
              /\ DictGet(k2_to_k1, DictGet(k1_to_k2, key1)) = key1
        /\ \A key2 \in KeySet(k2_to_k1) :
              /\ DictHas(k1_to_k2, DictGet(k2_to_k1, key2))
              /\ DictGet(k1_to_k2, DictGet(k2_to_k1, key2)) = key2
        /\ KeySet(values) = KeySet(k1_to_k2)
        /\ dkd_len(heap, self) = Cardinality(KeySet(k1_to_k2))
        /\ dkd_len(heap, self) = Cardinality(KeySet(k2_to_k1))
        /\ Len(k1_to_k2) = dkd_len(heap, self)
        /\ Len(k2_to_k1) = dkd_len(heap, self)

\* An update that raised after it had changed self, on a dict of two
\* entries.
C27_Witness ==
    /\ pc = "done" /\ op.name = "update"
    /\ result.error = "ValueError"
    /\ heap # expected
    /\ dkd_len(heap, self) = 2

(***************************************************************************)
(* base.FIELD_OPTIONS: field, update_field, get_field_options and the      *)
(* registration by the grepr_dataclass decorator                           *)
(*                                                                         *)
(* A dataclasses.Field object is a number (Field objects are compared and  *)
(* hashed by identity), included is the set of those that exist, and heap  *)
(* is the table FIELD_OPTIONS: a dict, its entries <<field, options>>.     *)
(***************************************************************************)

MaxFields == 2

\* The options update_field stores.
OptionsDict(grepr, validate_type, validator_fn, validate_require_exist, call_subvalidate) ==
    [FieldOptions(validate_type, validator_fn, validate_require_exist, call_subvalidate)
        EXCEPT !.grepr = grepr]

\* The defaults of update_field's parameters.
DefaultOptions == OptionsDict(TRUE, TRUE, "None", TRUE, FALSE)

\* For contrast: update_field that stores the options whether the field is
\* in the table or not.
update_field_always(table, f, options) == EntriesWith(table, f, options)

\* update_field(field, ...): the options are stored if the field is not in
\* the table.
update_field(table, f, options) ==
    IF ~DictHas(table, f) THEN Append(table, <<f, options>>) ELSE table

\* get_field_options(field): update_field(field) with the defaults, then
\* the table's entry.
get_field_options_in(table, f) ==
    [table |-> update_field(table, f, DefaultOptions),
     ret   |-> DictGet(update_field(table, f, DefaultOptions), f)]

\* field(...): a new Field object f, ValueError for a validator_fn that is
\* neither None nor callable, otherwise update_field(f, ...).
new_field(table, f, options) ==
    IF options.validator_fn # "None" /\ ~IsCallable(Atom(options.validator_fn))
    THEN [outcome |-> Raises("ValueError"), table |-> table]
    ELSE [outcome |-> Value(f), table |-> update_field(table, f, options)]

\* The loop of grepr_dataclass's decorator over the fields of the class:
\* update_field(field) for each.
RECURSIVE register_fields(_, _)
register_fields(table, fs) ==
    IF fs = <<>> THEN table
    ELSE register_fields(update_field(table, Head(fs), DefaultOptions), Tail(fs))

\* The options a caller passes.
PassedOptions ==
    {DefaultOptions,
     OptionsDict(FALSE, TRUE, "None", TRUE, FALSE),
     OptionsDict(TRUE, FALSE, "f", TRUE, FALSE),
     OptionsDict(TRUE, TRUE, "None", FALSE, TRUE),
     OptionsDict(TRUE, TRUE, "0", TRUE, FALSE)}

InitFields ==
    /\ pc = "call"
    /\ heap = <<>> /\ expected = <<>>
    /\ included = {}
    /\ op = NoOp /\ result = Idle
    /\ value = Idle /\ path = <<>> /\ self = Idle /\ calls = <<>>
    /\ root = Idle /\ visited = Idle

\* The call o ended as outcome and left the table as table.
FieldsCall(o, outcome, table) ==
    /\ pc' = "done"
    /\ op' = o
    /\ result' = outcome
    /\ expected' = heap
    /\ heap' = table
    /\ UNCHANGED <<value, path, self, calls, root, visited>>

\* dataclasses.field(...), or a field that dataclass() makes for a plain
\* annotation: a Field object that no call has registered.
BaseField ==
    /\ Cardinality(included) < MaxFields
    /\ included' = included \cup {Cardinality(included) + 1}
    /\ FieldsCall([name |-> "base_field", field |-> Cardinality(included) + 1],
                  Value(Cardinality(included) + 1), heap)

\* field(...): the caller has the new Field object when the call returns.
NewField ==
    \E options \in PassedOptions :
        LET f == Cardinality(included) + 1
            r == new_field(heap, f, options)
        IN  /\ Cardinality(included) < MaxFields
            /\ included' = IF r.outcome.error = "none" THEN included \cup {f} ELSE included
            /\ FieldsCall([name |-> "field", field |-> f, options |-> options],
                          r.outcome, r.table)

\* update_field(f, ...)
UpdateField ==
    \E f \in included, options \in PassedOptions :
        /\ FieldsCall([name |-> "update_field", field |-> f, options |-> options],
                      Value(Atom("None")), update_field(heap, f, options))
        /\ UNCHANGED included

\* get_field_options(f)
GetFieldOptions ==
    \E f \in included :
        /\ FieldsCall([name |-> "get_field_options", field |-> f],
                      Value(get_field_options_in(heap, f).ret),
                      get_field_options_in(heap, f).table)
        /\ UNCHANGED included

\* grepr_dataclass()(cls) for a class with the fields fs.
Decorate ==
    \E fs \in {s \in UNION {[1..n -> included] : n \in 1..2} :
                  \A i, j \in DOMAIN s : i # j => s[i] # s[j]} :
        /\ FieldsCall([name |-> "grepr_dataclass", fields |-> fs],
                      Value(Atom("None")), register_fields(heap, fs))
        /\ UNCHANGED included

NextFields == BaseField \/ NewField \/ UpdateField \/ GetFieldOptions \/ Decorate

SpecFields == InitFields /\ [][NextFields]_vars

\* C24: the table is write-once per field.  After any call, a field that
\* was in the table has the options it had; a field that the call put into
\* the table has the options passed to field() or update_field(), and the
\* defaults when get_field_options or the decorator registered it; and
\* get_field_options returns the table's entry, which for a field not yet
\* registered is grepr = true, validate_type = true, validator_fn = None,
\* validate_require_exist = true, call_subvalidate = false.
C24_WriteOnce ==
    /\ \A i \in DOMAIN expected :
          /\ DictHas(heap, expected[i][1])
          /\ DictGet(heap, expected[i][1]) = expected[i][2]
    /\ \A i \in DOMAIN heap :
          ~DictHas(expected, heap[i][1]) =>
              heap[i][2] = IF op.name \in {"field", "update_field"}
                           THEN op.options ELSE DefaultOptions
    /\ \A i, j \in DOMAIN heap : heap[i][1] = heap[j][1] => i = j
    /\ (pc = "done" /\ op.name = "get_field_options") =>
          /\ result = Value(DictGet(heap, op.field))
          /\ ~DictHas(expected, op.field) =>
                result.ret = [grepr |-> TRUE, validate_type |-> TRUE,
                              validator_fn |-> "None",
                              validate_require_exist |-> TRUE,
                              call_subvalidate |-> FALSE]

\* C24 witness: update_field with other options on a registered field.
C24_Witness ==
    /\ pc = "done" /\ op.name = "update_field"
    /\ DictHas(expected, op.field)
    /\ DictGet(expected, op.field) # op.options
    /\ heap = expected

\* C26: the message of a path validation error is, in this order, "At "
\* with the rendered path and ": " only if the path is not empty, the
\* condition with ": " only if a condition is given, then the message; the
\* error keeps path, msg and condition as they were passed.
C26_ErrorMessage ==
    (pc = "done" /\ op.name = "GU_PathValidationError") =>
        LET p == heap[op.recv]
            at == IF p.path = <<>> THEN <<>>
                  ELSE <<"A", "t", " ">> \o repr_as_python_code(p) \o <<":", " ">>
            cond == IF op.condition = Atom("None") THEN <<>>
                    ELSE op.condition.chars \o <<":", " ">>
        IN  /\ result.str = at \o cond \o op.msg.chars
            /\ result.path = p
            /\ result.msg = op.msg
            /\ result.condition = op.condition

\* An error at .user[0] with the condition "if" and the message "bad":
\* "At .user[0]: if: bad".
C26_Witness ==
    /\ pc = "done" /\ op.name = "GU_PathValidationError"
    /\ heap[op.recv] = AbstractTreePath(<<ATPathAttribute("user"), ATPathIndexOrKey("0")>>, TRUE)
    /\ op.condition = Str(<<"i", "f">>)
    /\ op.msg = Str(<<"b", "a", "d">>)
    /\ result.str = <<"A", "t", " ", ".", "u", "s", "e", "r", "[", "0", "]", ":", " ",
                      "i", "f", ":", " ", "b", "a", "d">>

----------------------------------------------------------------------------
(***************************************************************************)
(* decorators.enforce_argument_types                                       *)
(*                                                                         *)
(* A function is the sequence of its parameters, each [name, hint,         *)
(* default]: `hint` is the parameter's entry of get_type_hints(func), or   *)
(* NoHint, `default` its default value, or NoDefault.  Its body returns    *)
(* the list of its arguments, and every run of the body is appended to     *)
(* `calls`.  A call passes positional arguments.                           *)
(***************************************************************************)

NoHint == [t |-> "none"]
NoDefault == [kind |-> "empty"]
Param(name, hint, default) == [name |-> name, hint |-> hint, default |-> default]

\* sig.bind(*args) and bound_args.apply_defaults(): the value of every
\* parameter in the order of the signature, or a TypeError when there are
\* too many arguments or one is missing.
bind(func, args) ==
    IF Len(args) > Len(func) THEN Raises("TypeError")
    ELSE IF \E i \in DOMAIN func : i > Len(args) /\ func[i].default = NoDefault
         THEN Raises("TypeError")
    ELSE Value([i \in DOMAIN func |-> IF i <= Len(args) THEN args[i] ELSE func[i].default])

\* func(*args, **kwargs)
Body(arguments) == List(arguments)

\* The parameters the loop of the wrapper passes over.
Skipped(func, i) ==
    \/ i = 1 /\ func[1].name \in {"self", "cls"}
    \/ func[i].hint = NoHint
    \/ func[i].hint.t = "TypeVar"

\* wrapper(*args): the outcome and whether the body ran.
wrapper(func, args) ==
    LET bound_args == bind(func, args)
        arguments == bound_args.ret
    IN  IF bound_args.error # "none" THEN [outcome |-> bound_args, ran |-> FALSE]
        ELSE LET checks == [i \in DOMAIN func |->
                     IF Skipped(func, i) THEN Returned
                     ELSE enforce_type(arguments[i], func[i].hint,
                              add_attribute(AbstractTreePath(<<>>, FALSE), func[i].name))]
                 r == FirstRaise(checks)
             IN  IF Ok(r) THEN [outcome |-> Value(Body(arguments)), ran |-> TRUE]
                 ELSE IF r.error = "GU_TypeValidationError"
                      THEN [outcome |-> [error |-> r.error, msg |-> r.msg,
                                         path |-> AbstractTreePath(r.path, FALSE)],
                            ran |-> FALSE]
                 ELSE [outcome |-> Raises(r.error), ran |-> FALSE]

ParamNames == {<<>>, <<"a">>, <<"self">>, <<"a", "b">>, <<"self", "a">>,
               <<"cls", "a">>, <<"a", "cls">>}
Hints == {NoHint, IntT, Generic("list", <<IntT>>), TypeVar(<<>>),
          Generic("type", <<Generic("list", <<IntT>>)>>)}
ParamDefaults == {NoDefault, Atom("0"), Atom("'a'")}
\* A parameter without a default cannot follow one with a default.
Functions ==
    UNION {{[i \in DOMAIN names |-> Param(names[i], hints[i], defaults[i])] :
                hints \in [DOMAIN names -> Hints],
                defaults \in {d \in [DOMAIN names -> ParamDefaults] :
                                 \A i, j \in DOMAIN names :
                                     (i < j /\ d[i] # NoDefault) => d[j] # NoDefault}} :
           names \in ParamNames}
Arguments == {Atom("0"), Atom("'a'"), Atom("int"), List(<<Atom("0"), Atom("'a'")>>)}

InitWrap ==
    /\ pc = "call"
    /\ self \in Functions
    /\ calls = <<>> /\ result = Idle /\ op = NoOp
    /\ value = Idle /\ expected = Idle /\ path = Idle
    /\ root = Idle /\ included = {} /\ visited = Idle /\ heap = <<>>

\* enforce_argument_types(func)(*args)
CallWrapped ==
    /\ pc = "call"
    /\ \E n \in 0..(Len(self) + 1) : \E args \in [1..n -> Arguments] :
        LET r == wrapper(self, args)
        IN  /\ pc' = "done"
            /\ op' = [name |-> "wrapper", args |-> args]
            /\ result' = r.outcome
            /\ calls' = IF r.ran THEN Append(calls, bind(self, args).ret) ELSE calls
    /\ UNCHANGED <<value, expected, path, self, root, included, visited, heap>>

NextWrap == CallWrapped

SpecWrap == InitWrap /\ [][NextWrap]_vars

\* The call's arguments fit the signature, and the values of the parameters.
Binds == pc = "done" /\ bind(self, op.args).error = "none"
BoundArguments == bind(self, op.args).ret

\* The checked parameters whose argument does not pass its annotation.
Offending ==
    {i \in DOMAIN self : ~Skipped(self, i) /\ ~Passes(BoundArguments[i], self[i].hint)}

\* C25 (as claimed): the body of a wrapped function runs iff no checked
\* argument (defaults applied; a first parameter named self or cls and
\* TypeVar annotations skipped) fails enforce_type; then the wrapper returns
\* the function's result; otherwise the body does not run and a
\* GU_TypeValidationError is raised whose path starts at the first
\* offending parameter's name and is rendered without a leading dot.
C25_WrapperAsClaimed ==
    Binds =>
        IF Offending = {}
        THEN calls = <<BoundArguments>> /\ result = Value(Body(BoundArguments))
        ELSE /\ calls = <<>>
             /\ result.error = "GU_TypeValidationError"
             /\ IsPrefix(<<ATPathAttribute(self[Least(Offending)].name)>>, result.path.path)
             /\ IsPrefix(Chars(self[Least(Offending)].name),
                         repr_as_python_code(result.path))

----------------------------------------------------------------------------
(***************************************************************************)
(* The paths of visit_tree and of enforce_type, followed by get_in_tree    *)
(*                                                                         *)
(* One tree, built from lists, tuples, sets, frozensets, dicts and         *)
(* records, is either visited or checked against an annotation with the    *)
(* empty starting path.                                                    *)
(***************************************************************************)

AddressedTrees == Values \cup {t \in Trees : HookFree(t)}

InitAddress ==
    /\ pc = "call"
    /\ root \in AddressedTrees
    /\ op = NoOp /\ result = Idle /\ visited = Idle
    /\ included = {} /\ expected = Idle
    /\ value = Idle /\ path = Idle
    /\ self = Idle /\ calls = <<>> /\ heap = <<>>

\* TreeVisitor.create_new_include_only(types).visit_tree(root)
VisitRoot ==
    \E types \in IncludedTypes :
        /\ pc = "call"
        /\ pc' = "done"
        /\ op' = [name |-> "visit_tree"]
        /\ included' = types
        /\ visited' = visit_tree(types, root)
        /\ UNCHANGED <<value, expected, path, result, self, calls, root, heap>>

\* enforce_type(root, T)
EnforceRoot ==
    \E T \in Types :
        /\ pc = "call"
        /\ pc' = "done"
        /\ op' = [name |-> "enforce_type"]
        /\ expected' = T
        /\ result' = enforce_type(root, T, AbstractTreePath(<<>>, TRUE))
        /\ UNCHANGED <<value, path, self, calls, root, included, visited, heap>>

NextAddress == VisitRoot \/ EnforceRoot

SpecAddress == InitAddress /\ [][NextAddress]_vars

\* C29 (as claimed): every path of visit_tree(root) leads, by
\* get_in_tree(root), to the value it is mapped to, and the path of every
\* GU_TypeValidationError of enforce_type(root, T) with the empty starting
\* path leads, by get_in_tree(root), to a value inside root.
C29_PathsAddressAsClaimed ==
    /\ (pc = "done" /\ op.name = "visit_tree") =>
            \A q \in DOMAIN visited : get_in_tree(q, root, NotSet) = Value(visited[q])
    /\ (pc = "done" /\ op.name = "enforce_type" /\ IsTVE(result)) =>
            Ok(get_in_tree(AbstractTreePath(result.path, TRUE), root, NotSet))

============================================================================
